---- MODULE Spec2Model ----
(***************************************************************************)
(* Model lifecycle and generation orchestration of wanvidgen               *)
(* (src/src/wanvidgen): the three model managers (CLIPManager, VAEManager, *)
(* UNetManager), the MemoryManager guard and the GenerationPipeline that   *)
(* owns them.                                                              *)
(*                                                                         *)
(* The specifications share the variables:                                 *)
(*   Spec       the managers are owned by one GenerationPipeline and only  *)
(*              the pipeline's operations are called;                      *)
(*   MgrSpec    the three managers are used directly, as tests/test_models *)
(*              does;                                                      *)
(*   AsyncSpec  generate() runs call by call on a worker thread, as under  *)
(*              generate_async(), while the owner may unload;              *)
(*   CtorSpec   the pipeline or the managers are constructed over weight   *)
(*              files that may be missing;                                 *)
(*   GuardSpec  a MemoryManager is used directly, as tests/test_memory     *)
(*              does;                                                      *)
(*   ExcSpec    exceptions of exceptions.py are constructed;               *)
(*   MMSpec     a ModelManager (models/main_model_manager.py) is used;     *)
(*   VideoSpec  threads call generate_video and cancel_generation on the   *)
(*              callback-driven GenerationPipeline of                      *)
(*              wanvidgen/pipeline/pipeline.py, statement by statement;    *)
(*   GuiSpec    the GUI of wanvidgen/gui/app.py runs that pipeline on its  *)
(*              background thread; GuiLiveSpec adds that the thread and    *)
(*              the queue poller keep running.                             *)
(*                                                                         *)
(* What lies outside the repository is an input of the action that meets   *)
(* it: what the weight loader and model.to(device) do (LoadOutcomes), what *)
(* torch.cuda.empty_cache() does (CacheInputs), how much device memory is  *)
(* free (FreeMemChoices), what a domain operation raises (Faults) and what *)
(* torch.randn draws for the initial latent (Samples).                     *)
(***************************************************************************)
EXTENDS Integers, Sequences, FiniteSets, TLC

VARIABLES
    exc,            \* the exception object constructed last
    mm,             \* a ModelManager (main_model_manager.py) and its last call
    vp,             \* the GenerationPipeline of wanvidgen/pipeline/pipeline.py
    th,             \* th[t]: the generate_video call of thread t
    gui,            \* the WanVidGenGUI of wanvidgen/gui/app.py
    paths,          \* managers whose weight file exists
    instances,      \* objects constructed: "pipeline", "guard" or a manager
    lastRequired,   \* required_mb of the last call of the guard
    device,         \* GenerationPipeline.device / BaseModelManager.device
    cuda_available, \* torch.cuda.is_available()
    model,          \* model[m]: manager m's self.model is not None
    tokenizer,      \* CLIPManager.tokenizer is not None
    models_loaded,  \* GenerationPipeline._models_loaded
    scope,          \* owners ("pipeline" or a manager) inside a `with` block
    lastOp,         \* the operation that completed last
    lastMgr,        \* its receiver: "pipeline" or a manager
    lastResult,     \* "ok", "result" or the kind of the exception raised
    lastStage,      \* where the last generate() ended
    lastCause,      \* kind of the exception raised inside generate()'s try
    lastWrapped,    \* generate() built a new GenerationError around it
    lastCfg,        \* the GenerationConfig of the last generate()
    lastFree,       \* free memory (MB) the guard found in the last generate()
    calls,          \* guard / torch / manager calls made by the last generate()
    args,           \* args[i]: what calls[i] was given and what it returned
    lastSample,     \* content of the initial latent of the last generate()
    lastOut,        \* the GenerationResult the last generate() returned
    attempts,       \* managers whose load() the last pipeline load() called
                    \* (whose constructor the pipeline's constructor called)
    loadResults,    \* what each of those calls did, in the same order
    pre             \* residency when the last operation was called

\* The objects of the modules that stand apart from the pipeline, its
\* managers and its guard.
apart == <<exc, mm, vp, th, gui>>

\* The pipeline of src/src/wanvidgen, its managers and its guard, and what
\* is recorded of their calls.
core == <<paths, instances, lastRequired, device, cuda_available,
          model, tokenizer, models_loaded, scope, lastOp, lastMgr,
          lastResult, lastStage, lastCause, lastWrapped, lastCfg,
          lastFree, calls, args, lastSample, lastOut, attempts,
          loadResults, pre>>

\* What the operations of a pipeline or of a manager never write.
fixed == <<apart, paths, instances, lastRequired, device, cuda_available>>

vars == <<apart, paths, instances, lastRequired, device, cuda_available, model,
          tokenizer, models_loaded, scope,
          lastOp, lastMgr, lastResult, lastStage, lastCause, lastWrapped,
          lastCfg, lastFree, calls, args, lastSample, lastOut, attempts,
          loadResults, pre>>

Managers == {"clip", "vae", "unet"}

Devices == {"cpu", "cuda"}

\* Exception classes of exceptions.py, and one class outside the hierarchy.
DefinedKinds == {"ModelLoadError", "ConfigError", "GPUMemoryError",
                 "PipelineError", "GenerationError"}

OtherKinds == {"RuntimeError"}

\* MemoryManager.__init__: self.is_cuda
is_cuda == device = "cuda" /\ cuda_available

----------------------------------------------------------------------------
(* Model managers                                                          *)

\* BaseModelManager.is_loaded
is_loaded(mdl, m) == mdl[m]

\* What the three steps of load() can do: every step succeeds, the weight
\* loader raises, the tokenizer loader raises (CLIP only), or
\* model.to(device) raises (as it does for the placeholder objects of
\* _load_clip_model, _load_vae_model and _load_unet_model, which have no
\* `to` method).
LoadOutcomes(m) ==
    {"ok", "acquire_fail", "place_fail"}
        \cup (IF m = "clip" THEN {"tokenizer_fail"} ELSE {})

\* What the loaders of the repository do: _load_clip_model, _load_vae_model
\* and _load_unet_model return an instance of an empty class made with
\* type(name, (), {}), so the weights are acquired, the tokenizer is built
\* and move_to_device() raises on `self.model.to`.
PlaceholderOutcome(m) == "place_fail"

PlaceholderOuts == [m \in Managers |-> PlaceholderOutcome(m)]

\* load() as it would be without its `if self.is_loaded(): return`.
ManagerLoadNoGuard(m, mdl, tok, out) ==
    IF out = "acquire_fail"
    THEN [model |-> mdl, tokenizer |-> tok, result |-> "ModelLoadError"]
    ELSE IF out = "tokenizer_fail"
    THEN [model |-> [mdl EXCEPT ![m] = TRUE], tokenizer |-> tok,
          result |-> "ModelLoadError"]
    ELSE [model |-> [mdl EXCEPT ![m] = TRUE],
          tokenizer |-> (tok \/ m = "clip"),
          result |-> IF out = "place_fail" THEN "ModelLoadError" ELSE "ok"]

\* CLIPManager.load / VAEManager.load / UNetManager.load on manager m, the
\* loader behaving as `out`: the managers' state afterwards and what the
\* call raised. self.model is assigned before the tokenizer is loaded and
\* before move_to_device() runs, and the except clause only translates the
\* exception.
ManagerLoad(m, mdl, tok, out) ==
    IF is_loaded(mdl, m)
    THEN [model |-> mdl, tokenizer |-> tok, result |-> "ok"]
    ELSE IF out = "acquire_fail"
    THEN [model |-> mdl, tokenizer |-> tok, result |-> "ModelLoadError"]
    ELSE IF out = "tokenizer_fail"
    THEN [model |-> [mdl EXCEPT ![m] = TRUE], tokenizer |-> tok,
          result |-> "ModelLoadError"]
    ELSE [model |-> [mdl EXCEPT ![m] = TRUE],
          tokenizer |-> (tok \/ m = "clip"),
          result |-> IF out = "place_fail" THEN "ModelLoadError" ELSE "ok"]

\* CLIPManager.unload / VAEManager.unload / UNetManager.unload: the handle
\* (and the tokenizer) is dropped, then torch.cuda.empty_cache() runs when
\* CUDA is available; cacheOk says whether that call returns.
ManagerUnload(m, mdl, tok, cacheOk) ==
    [model |-> [mdl EXCEPT ![m] = FALSE],
     tokenizer |-> (tok /\ m # "clip"),
     result |-> IF cuda_available /\ ~cacheOk THEN "RuntimeError" ELSE "ok"]

\* The domain operations of each manager: CLIPManager.encode_text,
\* VAEManager.encode / decode, UNetManager.denoise / forward.
ManagerOps(m) ==
    IF m = "clip" THEN {"encode_text"}
    ELSE IF m = "vae" THEN {"encode", "decode"}
    ELSE {"denoise", "forward"}

\* A domain operation as it would be without its
\* `if not self.is_loaded(): raise ModelLoadError`.
DomainOpNoGuard(m, op, mdl, fails) ==
    IF fails THEN "RuntimeError" ELSE "result"

\* A domain operation of manager m called directly: ModelLoadError when
\* the manager is not loaded, else the tensor that torch.randn /
\* torch.randn_like build (`fails`: torch raises instead).
DomainOp(m, op, mdl, fails) ==
    IF ~is_loaded(mdl, m) THEN "ModelLoadError"
    ELSE IF fails THEN "RuntimeError"
    ELSE "result"

----------------------------------------------------------------------------
(* GenerationPipeline: load, unload, is_loaded                             *)

\* GenerationPipeline.is_loaded
pipeline_is_loaded(flag) == flag

\* Which cache release of one unload() raises: that of a manager's
\* unload(), that of the guard's free_memory(), or none.
CacheInputs ==
    IF cuda_available THEN {"none", "clip", "vae", "unet", "guard"}
    ELSE {"none"}

\* MemoryManager.free_memory: empties the cache on a CUDA guard only.
free_memory(cacheOk) == IF is_cuda /\ ~cacheOk THEN "RuntimeError" ELSE "ok"

\* GenerationPipeline.unload, the cache release failing at `cf` (or at no
\* call): the three managers in order, then the flag, then the guard. An
\* exception ends the call where it is raised.
PipelineUnload(mdl, tok, flag, cf) ==
    LET u1 == ManagerUnload("clip", mdl, tok, cf # "clip")
        u2 == ManagerUnload("vae", u1.model, u1.tokenizer, cf # "vae")
        u3 == ManagerUnload("unet", u2.model, u2.tokenizer, cf # "unet")
    IN  IF u1.result # "ok"
        THEN [model |-> u1.model, tokenizer |-> u1.tokenizer, flag |-> flag,
              result |-> u1.result]
        ELSE IF u2.result # "ok"
        THEN [model |-> u2.model, tokenizer |-> u2.tokenizer, flag |-> flag,
              result |-> u2.result]
        ELSE IF u3.result # "ok"
        THEN [model |-> u3.model, tokenizer |-> u3.tokenizer, flag |-> flag,
              result |-> u3.result]
        ELSE [model |-> u3.model, tokenizer |-> u3.tokenizer, flag |-> FALSE,
              result |-> free_memory(cf # "guard")]

\* GenerationPipeline.load: the order of the three load() calls.
LoadOrder == <<"clip", "vae", "unet">>

\* load() as it would be without the unload() of its except clause.
PipelineLoadNoRollback(mdl, tok, flag, outs, cf) ==
    LET l1 == ManagerLoad("clip", mdl, tok, outs["clip"])
        l2 == IF l1.result = "ok"
              THEN ManagerLoad("vae", l1.model, l1.tokenizer, outs["vae"])
              ELSE l1
        l3 == IF l2.result = "ok"
              THEN ManagerLoad("unet", l2.model, l2.tokenizer, outs["unet"])
              ELSE l2
    IN  [model |-> l3.model, tokenizer |-> l3.tokenizer,
         flag |-> (flag \/ l3.result = "ok"),
         result |-> IF l3.result = "ok" THEN "ok" ELSE "PipelineError",
         attempts |-> IF l1.result # "ok" THEN <<"clip">>
                      ELSE IF l2.result # "ok" THEN <<"clip", "vae">>
                      ELSE <<"clip", "vae", "unet">>,
         loadResults |-> IF l1.result # "ok" THEN <<l1.result>>
                         ELSE IF l2.result # "ok" THEN <<"ok", l2.result>>
                         ELSE <<"ok", "ok", l3.result>>]

\* load() as it would be if it went on to the remaining managers after a
\* load had raised, and raised at the end.
PipelineLoadContinues(mdl, tok, flag, outs, cf) ==
    LET l1 == ManagerLoad("clip", mdl, tok, outs["clip"])
        l2 == ManagerLoad("vae", l1.model, l1.tokenizer, outs["vae"])
        l3 == ManagerLoad("unet", l2.model, l2.tokenizer, outs["unet"])
        rb == PipelineUnload(l3.model, l3.tokenizer, flag, cf)
    IN  IF l1.result = "ok" /\ l2.result = "ok" /\ l3.result = "ok"
        THEN [model |-> l3.model, tokenizer |-> l3.tokenizer, flag |-> TRUE,
              result |-> "ok", attempts |-> <<"clip", "vae", "unet">>,
              loadResults |-> <<"ok", "ok", "ok">>]
        ELSE [model |-> rb.model, tokenizer |-> rb.tokenizer, flag |-> rb.flag,
              result |-> IF rb.result = "ok" THEN "PipelineError"
                         ELSE rb.result,
              attempts |-> <<"clip", "vae", "unet">>,
              loadResults |-> <<l1.result, l2.result, l3.result>>]

\* GenerationPipeline.load, the loaders behaving as outs[m] and the cache
\* release of a rollback failing at cf: CLIP, VAE, UNet in that order; the
\* first exception skips the rest, runs unload() and is replaced by
\* PipelineError, unless unload() itself raises.
PipelineLoad(mdl, tok, flag, outs, cf) ==
    LET l1 == ManagerLoad("clip", mdl, tok, outs["clip"])
        l2 == IF l1.result = "ok"
              THEN ManagerLoad("vae", l1.model, l1.tokenizer, outs["vae"])
              ELSE l1
        l3 == IF l2.result = "ok"
              THEN ManagerLoad("unet", l2.model, l2.tokenizer, outs["unet"])
              ELSE l2
        rb == PipelineUnload(l3.model, l3.tokenizer, flag, cf)
        tried == IF l1.result # "ok" THEN <<"clip">>
                 ELSE IF l2.result # "ok" THEN <<"clip", "vae">>
                 ELSE <<"clip", "vae", "unet">>
        did == IF l1.result # "ok" THEN <<l1.result>>
               ELSE IF l2.result # "ok" THEN <<"ok", l2.result>>
               ELSE <<"ok", "ok", l3.result>>
    IN  IF l3.result = "ok"
        THEN [model |-> l3.model, tokenizer |-> l3.tokenizer, flag |-> TRUE,
              result |-> "ok", attempts |-> tried, loadResults |-> did]
        ELSE [model |-> rb.model, tokenizer |-> rb.tokenizer, flag |-> rb.flag,
              result |-> IF rb.result = "ok" THEN "PipelineError"
                         ELSE rb.result,
              attempts |-> tried, loadResults |-> did]

----------------------------------------------------------------------------
(* GenerationPipeline.generate                                             *)

\* Largest num_inference_steps among the requests tried.
MaxSteps == 2

\* Which call of one kind a fault can hit: the first .. the MaxFaultNth-th.
MaxFaultNth == 2

\* _generate_frames: num_frames
NumFrames == 8

\* _check_memory_requirements: estimated_required_mb
EstimatedRequiredMb == 15000

\* GenerationConfig: the fields generate() reads.
Cfg(p, n, h, w, s, f, sd) ==
    [prompt |-> p, negative_prompt |-> n, height |-> h, width |-> w,
     num_inference_steps |-> s, fps |-> f, seed |-> sd]

\* GenerationConfig.seed: the default
DefaultSeed == 42

NoCfg == Cfg("", "", 0, 0, 0, 0, 0)

\* The requests tried: a valid one for every step count, with and without a
\* negative prompt, one with another seed, and requests that break one
\* validation rule or all.
Configs ==
    {Cfg("a test scene", n, 512, 512, s, 8, DefaultSeed) :
        n \in {"", "blurry"}, s \in 1..MaxSteps}
    \cup {Cfg("a test scene", "", 512, 512, 1, 8, 7)}
    \cup {Cfg(p, "", 512, 512, 1, 8, DefaultSeed) : p \in {"", " "}}
    \cup {Cfg("a test scene", "", h, w, 1, 8, DefaultSeed) :
        h \in {-1, 0, 512}, w \in {0, 512}}
    \cup {Cfg("a test scene", "", 512, 512, s, 8, DefaultSeed) :
        s \in {-1, 0}}
    \cup {Cfg("a test scene", "", 512, 512, 1, f, DefaultSeed) :
        f \in {0, 1}}
    \cup {NoCfg}

\* _validate_generation_config as it would be with `height < 0 or
\* width < 0` for `height <= 0 or width <= 0`.
ValidationErrorAllowsZero(cfg) ==
    IF cfg.prompt = "" THEN "Prompt cannot be empty"
    ELSE IF cfg.height < 0 \/ cfg.width < 0
    THEN "Height and width must be positive"
    ELSE IF cfg.num_inference_steps < 1
    THEN "Number of inference steps must be positive"
    ELSE IF cfg.fps < 1 THEN "FPS must be positive"
    ELSE "ok"

\* _validate_generation_config: the message of the first check that fails,
\* or "ok". `not config.prompt` is true of the empty string only.
ValidationError(cfg) ==
    IF cfg.prompt = "" THEN "Prompt cannot be empty"
    ELSE IF cfg.height <= 0 \/ cfg.width <= 0
    THEN "Height and width must be positive"
    ELSE IF cfg.num_inference_steps < 1
    THEN "Number of inference steps must be positive"
    ELSE IF cfg.fps < 1 THEN "FPS must be positive"
    ELSE "ok"

\* Free device memory (MB) the guard may find on a CUDA device.
FreeMemChoices == {14999, 15000}

\* MemoryManager.__init__: the default of min_free_memory_mb, stored in
\* self.min_free_memory_mb; no method of the guard reads it.
min_free_memory_mb == 256

\* MemoryManager.check_available_memory as it would be without its
\* `if not self.is_cuda: return True`.
check_available_memoryAlwaysAsks(required_mb, free_mb) ==
    free_mb >= required_mb

\* MemoryManager.check_available_memory, free_mb being what
\* get_free_gpu_memory_mb() returns; off CUDA it returns before asking.
check_available_memory(required_mb, free_mb) ==
    IF ~is_cuda THEN TRUE
    ELSE free_mb >= required_mb

\* MemoryManager.assert_memory_available as it would be with
\* `free_mb <= required_mb`.
assert_memory_availableInclusive(required_mb, free_mb) ==
    IF ~is_cuda THEN "ok"
    ELSE IF free_mb <= required_mb THEN "GPUMemoryError"
    ELSE "ok"

\* MemoryManager.assert_memory_available, free_mb being what
\* get_free_gpu_memory_mb() returns; off CUDA it returns before asking.
assert_memory_available(required_mb, free_mb) ==
    IF ~is_cuda THEN "ok"
    ELSE IF free_mb < required_mb THEN "GPUMemoryError"
    ELSE "ok"

\* _check_memory_requirements
check_memory_requirements(cfg, free_mb) ==
    assert_memory_available(EstimatedRequiredMb, free_mb)

Call(op, mgr) == [op |-> op, mgr |-> mgr]

GuardCall == Call("assert_memory_available", "guard")

\* What a call is given and what it returns. A tensor is named by the
\* number of the call of the try block that made it (0: no tensor): `text`
\* is the string encoded, `latent` and `cond` the tensors passed as latent
\* and as encoder_hidden_states, `timestep` the timestep passed (-1: none),
\* `out` the tensor returned.
NoArg == [text |-> "", latent |-> 0, timestep |-> -1, cond |-> 0, out |-> 0]

\* A call with its arguments.
Step(op, mgr, arg) == [op |-> op, mgr |-> mgr, arg |-> arg]

\* _generate_frames: the largest timestep
MaxTimestep == 1000

\* The (step, num_inference_steps) pairs, for up to 10 steps, at which the
\* double (1 - step / n) * 1000 lies just below the exact quotient, so that
\* int() gives one less: int((1 - 4 / 5) * 1000) is 199.
FloatUnder == {<<4, 5>>, <<8, 10>>, <<9, 10>>}

\* The timestep as it would be without the `1 -`: step / n * 1000.
TimestepAscending(step, n) == (step * MaxTimestep) \div n

\* _generate_frames: timestep = int((1 - step / n) * 1000)
Timestep(step, n) ==
    LET exact == ((n - step) * MaxTimestep) \div n
    IN  IF <<step, n>> \in FloatUnder THEN exact - 1 ELSE exact

\* The diffusion loop as it would be with a `break` after its first
\* iteration.
DenoiseLoopBreaks(cfg, step, latent, cond, next) ==
    IF step >= cfg.num_inference_steps THEN <<>>
    ELSE <<Step("denoise", "unet",
                [NoArg EXCEPT !.latent = latent,
                              !.timestep = Timestep(step,
                                                cfg.num_inference_steps),
                              !.cond = cond, !.out = next])>>

\* The diffusion loop as it would be without `latent = denoised`: every
\* iteration is given the initial latent.
RECURSIVE DenoiseLoopKeepsLatent(_, _, _, _, _)
DenoiseLoopKeepsLatent(cfg, step, latent, cond, next) ==
    IF step >= cfg.num_inference_steps THEN <<>>
    ELSE <<Step("denoise", "unet",
                [NoArg EXCEPT !.latent = latent,
                              !.timestep = Timestep(step,
                                                cfg.num_inference_steps),
                              !.cond = cond, !.out = next])>>
         \o DenoiseLoopKeepsLatent(cfg, step + 1, latent, cond, next + 1)

\* _generate_frames, `for step in range(num_inference_steps)` from
\* iteration `step` on: denoise(latent, timestep, prompt_embeddings), and
\* the tensor it returns (`next`) is the latent of the next iteration.
RECURSIVE DenoiseLoop(_, _, _, _, _)
DenoiseLoop(cfg, step, latent, cond, next) ==
    IF step >= cfg.num_inference_steps THEN <<>>
    ELSE <<Step("denoise", "unet",
                [NoArg EXCEPT !.latent = latent,
                              !.timestep = Timestep(step,
                                                cfg.num_inference_steps),
                              !.cond = cond, !.out = next])>>
         \o DenoiseLoop(cfg, step + 1, next, cond, next + 1)

\* _generate_frames, the calls made when none raises: the initial latent
\* from torch.randn (tensor `first`), the diffusion loop, then NumFrames
\* decodes of the latent the loop ended with. negative_embeddings is
\* passed in and never used.
GenerateFrames(cfg, prompt_embeddings, negative_embeddings, first) ==
    LET loop == DenoiseLoop(cfg, 0, first, prompt_embeddings, first + 1)
        latent == IF loop = <<>> THEN first ELSE loop[Len(loop)].arg.out
    IN  <<Step("randn", "torch", [NoArg EXCEPT !.out = first])>>
        \o loop
        \o [i \in 1..NumFrames |->
                Step("decode", "vae",
                     [NoArg EXCEPT !.latent = latent,
                                   !.out = first + Len(loop) + i])]

\* The calls the try block of generate() makes when none of them raises:
\* memory stats, encode_text for the prompt and for a non-empty negative
\* prompt, then _generate_frames (the initial latent, one denoise per
\* step, NumFrames decodes), memory stats.
PlannedCalls(cfg) ==
    LET neg == IF cfg.negative_prompt # "" THEN 1 ELSE 0
    IN  <<Step("get_memory_stats", "guard", NoArg),
          Step("encode_text", "clip",
               [NoArg EXCEPT !.text = cfg.prompt, !.out = 2])>>
        \o (IF neg = 1
            THEN <<Step("encode_text", "clip",
                        [NoArg EXCEPT !.text = cfg.negative_prompt,
                                      !.out = 3])>>
            ELSE <<>>)
        \o GenerateFrames(cfg, 2, 3 * neg, 3 + neg)
        \o <<Step("get_memory_stats", "guard", NoArg)>>

\* An exception raised under a call of generate(): the nth call of `op`
\* raises an exception of class `kind`. Any call may fail in the runtime
\* (a torch RuntimeError, out of memory included); a domain operation
\* stands for external model code and may raise any class.
NoFault == [op |-> "none", nth |-> 0, kind |-> "none"]

FaultOps == {"get_memory_stats", "encode_text", "randn", "denoise", "decode"}

DomainOps == {"encode_text", "denoise", "decode"}

Faults ==
    {NoFault}
    \cup [op : FaultOps, nth : 1..MaxFaultNth, kind : OtherKinds]
    \cup [op : DomainOps, nth : {1}, kind : DefinedKinds]

\* plan[i] is the Nth call of its operation.
Nth(plan, i) == Cardinality({j \in 1..i : plan[j].op = plan[i].op})

\* What call i of the plan raises ("none": it returns). A domain operation
\* raises ModelLoadError when its manager is not loaded (encode_text,
\* denoise, decode); get_memory_stats touches the device on CUDA only.
CallFailure(plan, i, mdl, fault) ==
    IF plan[i].mgr \in Managers /\ ~is_loaded(mdl, plan[i].mgr)
    THEN "ModelLoadError"
    ELSE IF /\ fault.op = plan[i].op
            /\ fault.nth = Nth(plan, i)
            /\ (plan[i].op = "get_memory_stats" => is_cuda)
    THEN fault.kind
    ELSE "none"

\* The except clause as it would be if it re-raised every exception of
\* exceptions.py and replaced only the others.
TranslateExceptionKeepsDefined(kind) ==
    [result |-> IF kind \in DefinedKinds THEN kind ELSE "GenerationError",
     wrapped |-> kind \notin DefinedKinds]

\* The except clause as it would be if it let a GPUMemoryError through
\* as it lets a GenerationError through.
TranslateExceptionKeepsMemoryError(kind) ==
    [result |-> IF kind = "GPUMemoryError" THEN kind ELSE "GenerationError",
     wrapped |-> kind \notin {"GPUMemoryError", "GenerationError"}]

\* The except clause of generate(): a GenerationError is re-raised, any
\* other exception is replaced by a new GenerationError.
TranslateException(kind) ==
    [result |-> "GenerationError", wrapped |-> kind # "GenerationError"]

\* The metadata as it would be if "seed" were written from the default of
\* GenerationConfig and not from the request.
MetadataDefaultSeed(cfg, frames) ==
    [fps |-> cfg.fps, height |-> cfg.height, width |-> cfg.width,
     num_frames |-> Len(frames),
     num_inference_steps |-> cfg.num_inference_steps, seed |-> DefaultSeed]

\* generate(): the metadata of the result (the entries read from the
\* request and the frame count; sampler, scheduler and the two memory
\* readings are left out).
Metadata(cfg, frames) ==
    [fps |-> cfg.fps, height |-> cfg.height, width |-> cfg.width,
     num_frames |-> Len(frames),
     num_inference_steps |-> cfg.num_inference_steps, seed |-> cfg.seed]

\* GenerationResult
GenerationResult(frames, metadata, cfg) ==
    [frames |-> frames, metadata |-> metadata, generation_config |-> cfg]

\* GenerationResult.get_frame_count
get_frame_count(res) == Len(res.frames)

\* What the last generate() returned when it returned nothing.
NoResult == GenerationResult(<<>>, Metadata(NoCfg, <<>>), NoCfg)

\* _generate_frames: frames, one tensor for each decode call.
Frames(plan) ==
    LET dec == SelectSeq(plan, LAMBDA c : c.op = "decode")
    IN  [i \in 1..Len(dec) |-> dec[i].arg.out]

\* The try block of generate(): the calls made up to the first one that
\* raises, and what reaches the caller.
GenerateBody(cfg, mdl, fault) ==
    LET plan == PlannedCalls(cfg)
        bad == {i \in 1..Len(plan) : CallFailure(plan, i, mdl, fault) # "none"}
        k == IF bad = {} THEN 0
             ELSE CHOOSE i \in bad : \A j \in bad : i <= j
        n == IF k = 0 THEN Len(plan) ELSE k
        made == <<GuardCall>> \o [i \in 1..n |-> Call(plan[i].op, plan[i].mgr)]
        given == <<NoArg>> \o [i \in 1..n |-> plan[i].arg]
    IN  IF k = 0
        THEN [result |-> "result", stage |-> "returned", cause |-> "none",
              wrapped |-> FALSE, calls |-> made, args |-> given,
              out |-> GenerationResult(Frames(plan),
                                       Metadata(cfg, Frames(plan)), cfg)]
        ELSE LET cause == CallFailure(plan, k, mdl, fault)
                 t == TranslateException(cause)
             IN  [result |-> t.result, stage |-> "body", cause |-> cause,
                  wrapped |-> t.wrapped, calls |-> made, args |-> given,
                  out |-> NoResult]

\* generate() as it would be if it validated the request before it looked
\* at is_loaded().
GenerateValidatesFirst(cfg, flag, mdl, free_mb, fault) ==
    IF ValidationError(cfg) # "ok"
    THEN [result |-> "GenerationError", stage |-> "validation",
          cause |-> "none", wrapped |-> FALSE, calls |-> <<>>,
          args |-> <<>>, out |-> NoResult]
    ELSE IF ~pipeline_is_loaded(flag)
    THEN [result |-> "PipelineError", stage |-> "not_loaded",
          cause |-> "none", wrapped |-> FALSE, calls |-> <<>>,
          args |-> <<>>, out |-> NoResult]
    ELSE IF check_memory_requirements(cfg, free_mb) # "ok"
    THEN [result |-> check_memory_requirements(cfg, free_mb),
          stage |-> "preflight", cause |-> "none", wrapped |-> FALSE,
          calls |-> <<GuardCall>>, args |-> <<NoArg>>,
          out |-> NoResult]
    ELSE GenerateBody(cfg, mdl, fault)

\* generate() as it would be if it asked the guard before it validated.
GenerateChecksMemoryFirst(cfg, flag, mdl, free_mb, fault) ==
    IF ~pipeline_is_loaded(flag)
    THEN [result |-> "PipelineError", stage |-> "not_loaded",
          cause |-> "none", wrapped |-> FALSE, calls |-> <<>>,
          args |-> <<>>, out |-> NoResult]
    ELSE IF check_memory_requirements(cfg, free_mb) # "ok"
    THEN [result |-> check_memory_requirements(cfg, free_mb),
          stage |-> "preflight", cause |-> "none", wrapped |-> FALSE,
          calls |-> <<GuardCall>>, args |-> <<NoArg>>,
          out |-> NoResult]
    ELSE IF ValidationError(cfg) # "ok"
    THEN [result |-> "GenerationError", stage |-> "validation",
          cause |-> "none", wrapped |-> FALSE, calls |-> <<GuardCall>>,
          args |-> <<NoArg>>, out |-> NoResult]
    ELSE GenerateBody(cfg, mdl, fault)

\* generate() as it would be with the capacity check inside the try block,
\* after the prompt is encoded.
GenerateChecksMemoryInTry(cfg, flag, mdl, free_mb, fault) ==
    IF ~pipeline_is_loaded(flag)
    THEN [result |-> "PipelineError", stage |-> "not_loaded",
          cause |-> "none", wrapped |-> FALSE, calls |-> <<>>,
          args |-> <<>>, out |-> NoResult]
    ELSE IF ValidationError(cfg) # "ok"
    THEN [result |-> "GenerationError", stage |-> "validation",
          cause |-> "none", wrapped |-> FALSE, calls |-> <<>>,
          args |-> <<>>, out |-> NoResult]
    ELSE IF check_memory_requirements(cfg, free_mb) # "ok"
    THEN [result |-> TranslateException("GPUMemoryError").result,
          stage |-> "body", cause |-> "GPUMemoryError", wrapped |-> TRUE,
          calls |-> <<Call("get_memory_stats", "guard"),
                      Call("encode_text", "clip"), GuardCall>>,
          args |-> <<NoArg, [NoArg EXCEPT !.text = cfg.prompt, !.out = 2],
                     NoArg>>,
          out |-> NoResult]
    ELSE GenerateBody(cfg, mdl, fault)

\* GenerationPipeline.generate: the loaded check, validation and the
\* capacity check, in that order and outside the try block, then the body.
Generate(cfg, flag, mdl, free_mb, fault) ==
    IF ~pipeline_is_loaded(flag)
    THEN [result |-> "PipelineError", stage |-> "not_loaded",
          cause |-> "none", wrapped |-> FALSE, calls |-> <<>>,
          args |-> <<>>, out |-> NoResult]
    ELSE IF ValidationError(cfg) # "ok"
    THEN [result |-> "GenerationError", stage |-> "validation",
          cause |-> "none", wrapped |-> FALSE, calls |-> <<>>,
          args |-> <<>>, out |-> NoResult]
    ELSE IF check_memory_requirements(cfg, free_mb) # "ok"
    THEN [result |-> check_memory_requirements(cfg, free_mb),
          stage |-> "preflight", cause |-> "none", wrapped |-> FALSE,
          calls |-> <<GuardCall>>, args |-> <<NoArg>>,
          out |-> NoResult]
    ELSE GenerateBody(cfg, mdl, fault)

----------------------------------------------------------------------------
(* Exceptions                                                              *)

\* WanVidGenException and its five subclasses, which add nothing to it.
ExceptionClasses == {"WanVidGenException"} \cup DefinedKinds

\* An optional argument: <<>> is None, <<v>> is the value v.
None == <<>>

\* Technical messages a raiser may pass.
Messages == {"", "Technical message", "Technical error details",
             "Failed to load model"}

\* user_message as a raiser may pass it: left out, empty, or a text.
UserMessages ==
    {None, <<"">>, <<"Something went wrong">>, <<"Config is wrong">>,
     <<"Technical message">>}

\* WanVidGenException.__init__: `user_message or message` takes message
\* when user_message is None or the empty string; str(exc) is the
\* argument given to Exception.__init__.
WanVidGenExceptionInit(message, user_message) ==
    [message |-> message,
     user_message |-> IF user_message # None /\ user_message[1] # ""
                      THEN user_message[1] ELSE message,
     str |-> message]

NoExc == [cls |-> "none", given |-> [message |-> "", user_message |-> None],
          message |-> "", user_message |-> "", str |-> ""]

----------------------------------------------------------------------------
(* ModelManager (models/main_model_manager.py)                             *)

\* Defaults of generate()'s keyword arguments.
DefaultWidth == 512
DefaultHeight == 512
DefaultFps == 30
DefaultDuration == 2

\* kwargs.get(key, default)
Get(kw, key, default) == IF kw[key] = None THEN default ELSE kw[key][1]

Kwargs(w, h, f, d) == [width |-> w, height |-> h, fps |-> f, duration |-> d]

\* Keyword arguments a caller may pass: each one given or left out; a
\* duration of 0 makes no frame.
KwargChoices ==
    {Kwargs(w, h, f, d) : w \in {None, <<64>>}, h \in {None, <<32>>},
                          f \in {None, <<2>>}, d \in {None, <<0>>, <<1>>}}

\* What the callback passed to generate() does with callback(frame, i,
\* num_frames): "none" is no callback; a callback returns, or writes into
\* the array it is handed, or raises.
CallbackChoices == {"none", "returns", "modifies", "raises"}

\* Frame i of n: its content is computed from i, n, width and height;
\* `modified` is set if the callback wrote into the array.
Frame(i, n, width, height, cb) ==
    [i |-> i, n |-> n, width |-> width, height |-> height,
     modified |-> (cb = "modifies")]

\* What generate() hands back: the error value, the result, or nothing
\* because an exception left it.
Returned(kind, error, frames, width, height, fps) ==
    [kind |-> kind, error |-> error, frames |-> frames,
     frame_count |-> Len(frames), width |-> width, height |-> height,
     fps |-> fps]

NoReturn == Returned("none", "", <<>>, 0, 0, 0)

\* ModelManager.generate as it would be without its model_loaded test.
MMGenerateNoCheck(model_loaded, kw, cb) ==
    LET width == Get(kw, "width", DefaultWidth)
        height == Get(kw, "height", DefaultHeight)
        fps == Get(kw, "fps", DefaultFps)
        num_frames == Get(kw, "duration", DefaultDuration) * fps
        made == IF cb = "raises" /\ num_frames > 0 THEN 1 ELSE num_frames
        frames == [k \in 1..made |->
                      Frame(k - 1, num_frames, width, height, cb)]
    IN  [ret |-> IF made < num_frames
                 THEN Returned("raised", "", <<>>, 0, 0, 0)
                 ELSE Returned("result", "", frames, width, height, fps),
         made |-> made,
         callbacks |-> IF cb = "none" THEN <<>>
                       ELSE [k \in 1..made |-> <<k - 1, num_frames>>]]

\* ModelManager.generate(prompt, **kwargs): the error value if the model
\* is not loaded; else num_frames = int(duration * fps) frames are made one
\* by one, each appended to the list and then handed to the callback, if
\* there is one; an exception of the callback leaves generate().
MMGenerate(model_loaded, kw, cb) ==
    IF ~model_loaded
    THEN [ret |-> Returned("error", "Model not loaded", <<>>, 0, 0, 0),
          made |-> 0,
          callbacks |-> <<>>]
    ELSE LET width == Get(kw, "width", DefaultWidth)
             height == Get(kw, "height", DefaultHeight)
             fps == Get(kw, "fps", DefaultFps)
             num_frames == Get(kw, "duration", DefaultDuration) * fps
             made == IF cb = "raises" /\ num_frames > 0 THEN 1
                     ELSE num_frames
             frames == [k \in 1..made |->
                           Frame(k - 1, num_frames, width, height, cb)]
         IN  [ret |-> IF made < num_frames
                      THEN Returned("raised", "", <<>>, 0, 0, 0)
                      ELSE Returned("result", "", frames, width, height,
                                    fps),
              made |-> made,
              callbacks |-> IF cb = "none" THEN <<>>
                            ELSE [k \in 1..made |-> <<k - 1, num_frames>>]]

\* ModelManager.__init__; `op`, `kw`, `cb`, `ret`, `made` and `callbacks`
\* describe the last call, `since_load` is true if load_model() has been
\* called since the last unload_model().
NewModelManager ==
    [model |-> FALSE, model_loaded |-> FALSE, since_load |-> FALSE,
     op |-> "__init__", kw |-> Kwargs(None, None, None, None),
     cb |-> "none", ret |-> NoReturn, made |-> 0, callbacks |-> <<>>]

----------------------------------------------------------------------------
(* The callback-driven GenerationPipeline (wanvidgen/pipeline/pipeline.py) *)

\* Threads that may call generate_video on the one pipeline.
Callers == {"t1", "t2"}

\* Largest `steps` a call is given.
MaxVideoSteps == 2

\* The last thing that happened on the pipeline: the call of thread t
\* "returned", "raised" (from its try block) or was "rejected" (`was` is
\* is_generating as that call found it), "cancel", or a "step" of a call.
Ev(t, what, was) == [t |-> t, what |-> what, was |-> was]

\* GenerationPipeline.__init__
NewVideoPipeline ==
    [is_generating |-> FALSE, current_progress |-> 0, output_path |-> None,
     ev |-> Ev("none", "__init__", FALSE)]

\* GenerationPipeline.get_status
get_status(p) ==
    [is_generating |-> p.is_generating, progress |-> p.current_progress,
     output_path |-> p.output_path]

\* A thread's generate_video call. pc is where the call stands: "idle"
\* (not in a call), "admitted" (past the test of line 56), "try" (in the
\* try block, before the loop), "loop" (before iteration i), "after" (before
\* the test of line 122), "finalize" (past it), "finally", "finally2"
\* (between the two assignments of the finally block). ret is what the call
\* returns: "" or "file", or "RuntimeError" (rejected at line 57) or
\* "raised" (an exception left the try block); "none" until then.
\* cancelled: cancel_generation() was called while the call was executing
\* and had saved nothing; saved: the call wrote its file, set output_path
\* and reported 'Video saved'. gui: the call was made by the GUI's worker.
\* The arguments and the loop counter end with the call.
NoCall ==
    [pc |-> "idle", steps |-> 0, i |-> 0, progress_callback |-> FALSE,
     status_callback |-> FALSE, gui |-> FALSE, ret |-> "none",
     cancelled |-> FALSE, saved |-> FALSE]

Executing(c) == c.pc # "idle"

----------------------------------------------------------------------------
(* WanVidGenGUI (wanvidgen/gui/app.py)                                     *)

\* WanVidGenGUI.__init__ and _setup_widgets: nothing is being generated,
\* the log queue is empty. worker is where the background thread of
\* _run_generation stands: "none" (no thread), "begin" (started), "call"
\* (inside pipeline.generate_video), "done" (before the put of its finally
\* clause); sent are the 'success', 'error' and 'done' messages the last
\* started generation has put; ev is the last thing the GUI did.
NewGUI ==
    [is_generating |-> FALSE, generate_button |-> "normal",
     cancel_button |-> "disabled", log_queue |-> <<>>, worker |-> "none",
     sent |-> <<>>, ev |-> "__init__"]

\* The callbacks _run_generation passes put one message each on the log
\* queue; the callbacks of another caller are not followed.
Put(g, on, msgs) == IF on THEN [g EXCEPT !.log_queue = @ \o msgs] ELSE g

----------------------------------------------------------------------------
(* The objects apart from the pipeline                                     *)

\* No object of the other modules has been used.
ApartInit ==
    /\ exc = NoExc
    /\ mm = NewModelManager
    /\ vp = NewVideoPipeline
    /\ th = [t \in Callers |-> NoCall]
    /\ gui = NewGUI

----------------------------------------------------------------------------
(* State machine                                                           *)

\* After construction (GenerationPipeline.__init__, BaseModelManager.
\* __init__ on existing weight files): nothing is loaded. The device has
\* been resolved by the caller: "cuda" is passed only where CUDA is
\* available.
Init ==
    /\ paths = Managers
    /\ instances = Managers \cup {"pipeline"}
    /\ lastRequired = 0
    /\ device \in Devices
    /\ cuda_available \in BOOLEAN
    /\ device = "cuda" => cuda_available
    /\ model = [m \in Managers |-> FALSE]
    /\ tokenizer = FALSE
    /\ models_loaded = FALSE
    /\ scope = {}
    /\ lastOp = "init"
    /\ lastMgr = "pipeline"
    /\ lastResult = "ok"
    /\ lastStage = "none"
    /\ lastCause = "none"
    /\ lastWrapped = FALSE
    /\ lastCfg = NoCfg
    /\ lastFree = 0
    /\ calls = <<>>
    /\ args = <<>>
    /\ lastSample = 0
    /\ lastOut = NoResult
    /\ attempts = <<>>
    /\ loadResults = <<>>
    /\ pre = [model |-> model, tokenizer |-> tokenizer,
              flag |-> models_loaded]
    /\ ApartInit

\* One loader behaviour for each manager.
\* load() stops at the first loader that raises, so at most one does.
LoadInputs ==
    {outs \in [Managers -> UNION {LoadOutcomes(m) : m \in Managers}] :
        /\ \A m \in Managers : outs[m] \in LoadOutcomes(m)
        /\ Cardinality({m \in Managers : outs[m] # "ok"}) <= 1}

\* The free memory a generate() call may find: read on a CUDA guard only.
FreeInputs == IF is_cuda THEN FreeMemChoices ELSE {0}

\* The faults a generate() call may meet: none unless its try block runs.
FaultInputs(cfg, free_mb) ==
    IF /\ pipeline_is_loaded(models_loaded)
       /\ ValidationError(cfg) = "ok"
       /\ check_memory_requirements(cfg, free_mb) = "ok"
    THEN Faults ELSE {NoFault}

\* What torch.randn may put in the initial latent: it draws from the
\* process-wide generator, which nothing in generate() seeds.
Samples == {1, 2}

\* torch.randn of _generate_frames returned in a generate() that made the
\* calls cs and ended at `stage`.
LatentBuilt(cs, stage) ==
    \E i \in 1..Len(cs) :
        cs[i].op = "randn" /\ (i < Len(cs) \/ stage = "returned")

\* The initial latents a generate() call may draw: none (0) unless
\* torch.randn returns.
SampleInputs(cs, stage) == IF LatentBuilt(cs, stage) THEN Samples ELSE {0}

\* What an operation other than generate() leaves in the generate record.
NoGenerate ==
    /\ lastStage' = "none"
    /\ lastCause' = "none"
    /\ lastWrapped' = FALSE
    /\ lastCfg' = NoCfg
    /\ lastFree' = 0
    /\ calls' = <<>>
    /\ args' = <<>>
    /\ lastSample' = 0
    /\ lastOut' = NoResult
    /\ pre' = [model |-> model, tokenizer |-> tokenizer,
               flag |-> models_loaded]

\* pipeline.load()
Load ==
    \E outs \in LoadInputs, cf \in CacheInputs :
        \E r \in {PipelineLoad(model, tokenizer, models_loaded, outs, cf)} :
            /\ model' = r.model
            /\ tokenizer' = r.tokenizer
            /\ models_loaded' = r.flag
            /\ lastOp' = "load"
            /\ lastMgr' = "pipeline"
            /\ lastResult' = r.result
            /\ attempts' = r.attempts
            /\ loadResults' = r.loadResults
            /\ NoGenerate
            /\ UNCHANGED <<fixed, scope>>

\* pipeline.unload()
Unload ==
    \E cf \in CacheInputs :
        \E r \in {PipelineUnload(model, tokenizer, models_loaded, cf)} :
            /\ model' = r.model
            /\ tokenizer' = r.tokenizer
            /\ models_loaded' = r.flag
            /\ lastOp' = "unload"
            /\ lastMgr' = "pipeline"
            /\ lastResult' = r.result
            /\ attempts' = <<>>
            /\ loadResults' = <<>>
            /\ NoGenerate
            /\ UNCHANGED <<fixed, scope>>

\* generate() as it would be if a failure in its try block unloaded the
\* models.
GenerateCallUnloadsOnFailure ==
    \E cfg \in Configs, free_mb \in FreeInputs :
      \E fault \in FaultInputs(cfg, free_mb) :
        \E r \in {Generate(cfg, models_loaded, model, free_mb, fault)} :
          \E u \in {IF r.stage = "body"
                    THEN PipelineUnload(model, tokenizer, models_loaded, "none")
                    ELSE [model |-> model, tokenizer |-> tokenizer,
                          flag |-> models_loaded, result |-> "ok"]} :
          \E z \in SampleInputs(r.calls, r.stage) :
            /\ lastOp' = "generate"
            /\ lastMgr' = "pipeline"
            /\ lastResult' = r.result
            /\ lastStage' = r.stage
            /\ lastCause' = r.cause
            /\ lastWrapped' = r.wrapped
            /\ lastCfg' = cfg
            /\ lastFree' = free_mb
            /\ calls' = r.calls
            /\ args' = r.args
            /\ lastSample' = z
            /\ lastOut' = r.out
            /\ attempts' = <<>>
            /\ loadResults' = <<>>
            /\ pre' = [model |-> model, tokenizer |-> tokenizer,
                       flag |-> models_loaded]
            /\ model' = u.model
            /\ tokenizer' = u.tokenizer
            /\ models_loaded' = u.flag
            /\ UNCHANGED <<fixed, scope>>

\* pipeline.generate(cfg)
GenerateCall ==
    \E cfg \in Configs, free_mb \in FreeInputs :
      \E fault \in FaultInputs(cfg, free_mb) :
        \E r \in {Generate(cfg, models_loaded, model, free_mb, fault)} :
          \E z \in SampleInputs(r.calls, r.stage) :
            /\ lastOp' = "generate"
            /\ lastMgr' = "pipeline"
            /\ lastResult' = r.result
            /\ lastStage' = r.stage
            /\ lastCause' = r.cause
            /\ lastWrapped' = r.wrapped
            /\ lastCfg' = cfg
            /\ lastFree' = free_mb
            /\ calls' = r.calls
            /\ args' = r.args
            /\ lastSample' = z
            /\ lastOut' = r.out
            /\ attempts' = <<>>
            /\ loadResults' = <<>>
            /\ pre' = [model |-> model, tokenizer |-> tokenizer,
                       flag |-> models_loaded]
            /\ UNCHANGED <<fixed, model, tokenizer,
                           models_loaded, scope>>

\* `with pipeline:` is entered: GenerationPipeline.__enter__. The block is
\* entered only if load() returns.
Enter ==
    \E outs \in LoadInputs, cf \in CacheInputs :
        \E r \in {PipelineLoad(model, tokenizer, models_loaded, outs, cf)} :
            /\ "pipeline" \notin scope
            /\ model' = r.model
            /\ tokenizer' = r.tokenizer
            /\ models_loaded' = r.flag
            /\ scope' = IF r.result = "ok" THEN scope \cup {"pipeline"}
                        ELSE scope
            /\ lastOp' = "enter"
            /\ lastMgr' = "pipeline"
            /\ lastResult' = r.result
            /\ attempts' = r.attempts
            /\ loadResults' = r.loadResults
            /\ NoGenerate
            /\ UNCHANGED <<fixed>>

\* The `with pipeline:` block is left, normally or by an exception raised
\* in it: GenerationPipeline.__exit__ runs unload() and returns None, so
\* the block's exception goes on unless unload() raises another.
Exit ==
    \E raised \in BOOLEAN, cf \in CacheInputs :
        \E r \in {PipelineUnload(model, tokenizer, models_loaded, cf)} :
            /\ "pipeline" \in scope
            /\ model' = r.model
            /\ tokenizer' = r.tokenizer
            /\ models_loaded' = r.flag
            /\ scope' = scope \ {"pipeline"}
            /\ lastOp' = "exit"
            /\ lastMgr' = "pipeline"
            /\ lastResult' = IF r.result # "ok" THEN r.result
                             ELSE IF raised THEN "body_exception" ELSE "ok"
            /\ attempts' = <<>>
            /\ loadResults' = <<>>
            /\ NoGenerate
            /\ UNCHANGED <<fixed>>

Next == Load \/ Unload \/ GenerateCall \/ Enter \/ Exit

Spec == Init /\ [][Next]_vars

----------------------------------------------------------------------------
(* The managers used directly                                              *)

\* manager.load()
MgrLoad(m) ==
    \E out \in LoadOutcomes(m) :
        \E r \in {ManagerLoad(m, model, tokenizer, out)} :
            /\ model' = r.model
            /\ tokenizer' = r.tokenizer
            /\ lastOp' = "load"
            /\ lastMgr' = m
            /\ lastResult' = r.result
            /\ attempts' = <<>>
            /\ loadResults' = <<>>
            /\ NoGenerate
            /\ UNCHANGED <<fixed, models_loaded, scope>>

\* manager.unload()
MgrUnload(m) ==
    \E cacheOk \in BOOLEAN :
        \E r \in {ManagerUnload(m, model, tokenizer, cacheOk)} :
            /\ model' = r.model
            /\ tokenizer' = r.tokenizer
            /\ lastOp' = "unload"
            /\ lastMgr' = m
            /\ lastResult' = r.result
            /\ attempts' = <<>>
            /\ loadResults' = <<>>
            /\ NoGenerate
            /\ UNCHANGED <<fixed, models_loaded, scope>>

\* `with manager:` is entered: BaseModelManager.__enter__
MgrEnter(m) ==
    \E out \in LoadOutcomes(m) :
        \E r \in {ManagerLoad(m, model, tokenizer, out)} :
            /\ m \notin scope
            /\ model' = r.model
            /\ tokenizer' = r.tokenizer
            /\ scope' = IF r.result = "ok" THEN scope \cup {m} ELSE scope
            /\ lastOp' = "enter"
            /\ lastMgr' = m
            /\ lastResult' = r.result
            /\ attempts' = <<>>
            /\ loadResults' = <<>>
            /\ NoGenerate
            /\ UNCHANGED <<fixed, models_loaded>>

\* The `with manager:` block is left: BaseModelManager.__exit__
MgrExit(m) ==
    \E raised \in BOOLEAN, cacheOk \in BOOLEAN :
        \E r \in {ManagerUnload(m, model, tokenizer, cacheOk)} :
            /\ m \in scope
            /\ model' = r.model
            /\ tokenizer' = r.tokenizer
            /\ scope' = scope \ {m}
            /\ lastOp' = "exit"
            /\ lastMgr' = m
            /\ lastResult' = IF r.result # "ok" THEN r.result
                             ELSE IF raised THEN "body_exception" ELSE "ok"
            /\ attempts' = <<>>
            /\ loadResults' = <<>>
            /\ NoGenerate
            /\ UNCHANGED <<fixed, models_loaded>>

\* manager.encode_text(..) / encode(..) / decode(..) / denoise(..) /
\* forward(..): no state of the manager is written.
MgrCall(m) ==
    \E op \in ManagerOps(m), fails \in BOOLEAN :
        \E r \in {DomainOp(m, op, model, fails)} :
            /\ lastOp' = op
            /\ lastMgr' = m
            /\ lastResult' = r
            /\ attempts' = <<>>
            /\ loadResults' = <<>>
            /\ NoGenerate
            /\ UNCHANGED <<fixed, model, tokenizer,
                           models_loaded, scope>>

MgrNext ==
    \E m \in Managers :
        MgrLoad(m) \/ MgrUnload(m) \/ MgrEnter(m) \/ MgrExit(m) \/ MgrCall(m)

MgrSpec == Init /\ [][MgrNext]_vars

----------------------------------------------------------------------------
(* generate() on a worker thread                                           *)

\* generate_async: loop.run_in_executor(None, self.generate, config). The
\* worker thread runs generate() one call at a time while other threads
\* may use the pipeline. A generation in flight has lastStage = "running"
\* and lastResult = "pending"; calls and args hold what it has done so far.

\* generate_async as it would be if the wrapper validated the request
\* itself before it handed the call to generate().
WorkerStartValidatesFirst ==
    /\ lastStage # "running"
    /\ \E cfg \in Configs, free_mb \in FreeInputs :
        \E r \in {GenerateValidatesFirst(cfg, models_loaded, model, free_mb,
                                         NoFault)} :
            /\ lastOp' = "generate"
            /\ lastMgr' = "pipeline"
            /\ lastCfg' = cfg
            /\ lastFree' = free_mb
            /\ lastSample' = 0
            /\ lastOut' = NoResult
            /\ lastCause' = "none"
            /\ lastWrapped' = FALSE
            /\ attempts' = <<>>
            /\ loadResults' = <<>>
            /\ pre' = [model |-> model, tokenizer |-> tokenizer,
                       flag |-> models_loaded]
            /\ IF r.stage \in {"not_loaded", "validation", "preflight"}
               THEN /\ lastResult' = r.result
                    /\ lastStage' = r.stage
                    /\ calls' = r.calls
                    /\ args' = r.args
               ELSE /\ lastResult' = "pending"
                    /\ lastStage' = "running"
                    /\ calls' = <<GuardCall>>
                    /\ args' = <<NoArg>>
            /\ UNCHANGED <<fixed, model, tokenizer,
                           models_loaded, scope>>

\* The worker begins generate(config): the loaded check, validation and the
\* capacity check end the call or let it enter the try block.
WorkerStart ==
    /\ lastStage # "running"
    /\ \E cfg \in Configs, free_mb \in FreeInputs :
        \E r \in {Generate(cfg, models_loaded, model, free_mb, NoFault)} :
            /\ lastOp' = "generate"
            /\ lastMgr' = "pipeline"
            /\ lastCfg' = cfg
            /\ lastFree' = free_mb
            /\ lastSample' = 0
            /\ lastOut' = NoResult
            /\ lastCause' = "none"
            /\ lastWrapped' = FALSE
            /\ attempts' = <<>>
            /\ loadResults' = <<>>
            /\ pre' = [model |-> model, tokenizer |-> tokenizer,
                       flag |-> models_loaded]
            /\ IF r.stage \in {"not_loaded", "validation", "preflight"}
               THEN /\ lastResult' = r.result
                    /\ lastStage' = r.stage
                    /\ calls' = r.calls
                    /\ args' = r.args
               ELSE /\ lastResult' = "pending"
                    /\ lastStage' = "running"
                    /\ calls' = <<GuardCall>>
                    /\ args' = <<NoArg>>
            /\ UNCHANGED <<fixed, model, tokenizer,
                           models_loaded, scope>>

\* The worker's next call as it would be if the except clause handed back
\* the frames decoded so far.
WorkerStepReturnsPartial ==
    /\ lastStage = "running"
    /\ \E plan \in {PlannedCalls(lastCfg)} :
       \E i \in {Len(calls)}, kind \in {"none"} \cup OtherKinds :
       \E failure \in {CallFailure(plan, i, model,
                                   [op |-> plan[i].op, nth |-> Nth(plan, i),
                                    kind |-> kind])} :
       \E z \in (IF plan[i].op = "randn" THEN Samples ELSE {lastSample}) :
       \E done \in {[j \in 1..(IF failure = "none" THEN i ELSE i - 1) |->
                        plan[j]]} :
            /\ calls' = Append(calls, Call(plan[i].op, plan[i].mgr))
            /\ args' = Append(args, plan[i].arg)
            /\ lastSample' = z
            /\ IF failure # "none" \/ i = Len(plan)
               THEN /\ lastResult' = "result"
                    /\ lastStage' = IF failure # "none" THEN "body"
                                    ELSE "returned"
                    /\ lastCause' = failure
                    /\ lastWrapped' = FALSE
                    /\ lastOut' = GenerationResult(Frames(done),
                                      Metadata(lastCfg, Frames(done)),
                                      lastCfg)
               ELSE UNCHANGED <<lastResult, lastStage, lastCause,
                                lastWrapped, lastOut>>
            /\ UNCHANGED <<fixed, model, tokenizer,
                           models_loaded, scope, lastOp, lastMgr, lastCfg,
                           lastFree, attempts, loadResults, pre>>

\* The worker makes the next call of the try block, against the managers
\* as they are now. The call raises ModelLoadError if its manager has been
\* unloaded meanwhile; it may raise another exception (`kind`), as
\* is_loaded() does between `del self.model` and `self.model = None` of an
\* unload() on another thread. An exception ends generate() through its
\* except clause; the return of the last call ends it with the result.
WorkerStep ==
    /\ lastStage = "running"
    /\ \E plan \in {PlannedCalls(lastCfg)} :
       \E i \in {Len(calls)}, kind \in {"none"} \cup OtherKinds :
       \E failure \in {CallFailure(plan, i, model,
                                   [op |-> plan[i].op, nth |-> Nth(plan, i),
                                    kind |-> kind])} :
       \E z \in (IF plan[i].op = "randn" THEN Samples ELSE {lastSample}) :
            /\ calls' = Append(calls, Call(plan[i].op, plan[i].mgr))
            /\ args' = Append(args, plan[i].arg)
            /\ lastSample' = IF failure = "none" THEN z ELSE lastSample
            /\ IF failure # "none"
               THEN /\ lastResult' = TranslateException(failure).result
                    /\ lastStage' = "body"
                    /\ lastCause' = failure
                    /\ lastWrapped' = TranslateException(failure).wrapped
                    /\ lastOut' = NoResult
               ELSE IF i = Len(plan)
               THEN /\ lastResult' = "result"
                    /\ lastStage' = "returned"
                    /\ lastOut' = GenerationResult(Frames(plan),
                                      Metadata(lastCfg, Frames(plan)),
                                      lastCfg)
                    /\ UNCHANGED <<lastCause, lastWrapped>>
               ELSE UNCHANGED <<lastResult, lastStage, lastCause,
                                lastWrapped, lastOut>>
            /\ UNCHANGED <<fixed, model, tokenizer,
                           models_loaded, scope, lastOp, lastMgr, lastCfg,
                           lastFree, attempts, loadResults, pre>>

\* Another thread unloads manager m while the generation is in flight
\* (pipeline.unload() is three of these in a row, then the flag): the
\* handle is dropped whether or not the cache release raises in that
\* thread.
ConcurrentUnload(m) ==
    /\ lastStage = "running"
    /\ \E cacheOk \in BOOLEAN :
        \E r \in {ManagerUnload(m, model, tokenizer, cacheOk)} :
            /\ model' = r.model
            /\ tokenizer' = r.tokenizer
    /\ UNCHANGED <<fixed, models_loaded, scope, lastOp,
                   lastMgr, lastResult, lastStage, lastCause, lastWrapped,
                   lastCfg, lastFree, calls, args, lastSample, lastOut,
                   attempts, loadResults, pre>>

\* pipeline.unload() on another thread reaches `self._models_loaded =
\* False`, the three managers being unloaded.
ConcurrentFlagClear ==
    /\ lastStage = "running"
    /\ \A m \in Managers : ~is_loaded(model, m)
    /\ models_loaded' = FALSE
    /\ UNCHANGED <<fixed, model, tokenizer, scope, lastOp,
                   lastMgr, lastResult, lastStage, lastCause, lastWrapped,
                   lastCfg, lastFree, calls, args, lastSample, lastOut,
                   attempts, loadResults, pre>>

\* No generation is in flight and load() / unload() is called.
IdleLoad == lastStage # "running" /\ Load

IdleUnload == lastStage # "running" /\ Unload

AsyncNext ==
    \/ IdleLoad
    \/ IdleUnload
    \/ WorkerStart
    \/ WorkerStep
    \/ \E m \in Managers : ConcurrentUnload(m)
    \/ ConcurrentFlagClear

AsyncSpec == Init /\ [][AsyncNext]_vars

----------------------------------------------------------------------------
(* Construction                                                            *)

\* BaseModelManager.__init__ as it would be without _validate_config().
ManagerInitNoCheck(m, ps) == "ok"

\* BaseModelManager.__init__ (CLIPManager, VAEManager, UNetManager), ps
\* being the managers whose weight file exists: self.model = None, then
\* _validate_config() raises ConfigError if the path does not exist.
ManagerInit(m, ps) == IF m \in ps THEN "ok" ELSE "ConfigError"

\* GenerationPipeline.__init__ as it would be if its except clause
\* re-raised the exception of the manager's constructor.
PipelineInitKeepsCause(ps) ==
    LET bad == {i \in 1..Len(LoadOrder) : ManagerInit(LoadOrder[i], ps) # "ok"}
        k == IF bad = {} THEN Len(LoadOrder)
             ELSE CHOOSE i \in bad : \A j \in bad : i <= j
    IN  [result |-> IF bad = {} THEN "ok" ELSE ManagerInit(LoadOrder[k], ps),
         attempts |-> SubSeq(LoadOrder, 1, k),
         loadResults |-> [i \in 1..k |-> ManagerInit(LoadOrder[i], ps)]]

\* GenerationPipeline.__init__: the CLIP, VAE and UNet managers are
\* constructed in that order inside one try block; the first exception
\* skips the rest and is replaced by PipelineError.
PipelineInit(ps) ==
    LET bad == {i \in 1..Len(LoadOrder) : ManagerInit(LoadOrder[i], ps) # "ok"}
        k == IF bad = {} THEN Len(LoadOrder)
             ELSE CHOOSE i \in bad : \A j \in bad : i <= j
    IN  [result |-> IF bad = {} THEN "ok" ELSE "PipelineError",
         attempts |-> SubSeq(LoadOrder, 1, k),
         loadResults |-> [i \in 1..k |-> ManagerInit(LoadOrder[i], ps)]]

\* Before anything is constructed: some of the three weight files exist.
CtorInit ==
    /\ paths \in SUBSET Managers
    /\ instances = {}
    /\ lastRequired = 0
    /\ device \in Devices
    /\ cuda_available \in BOOLEAN
    /\ device = "cuda" => cuda_available
    /\ model = [m \in Managers |-> FALSE]
    /\ tokenizer = FALSE
    /\ models_loaded = FALSE
    /\ scope = {}
    /\ lastOp = "init"
    /\ lastMgr = "pipeline"
    /\ lastResult = "ok"
    /\ lastStage = "none"
    /\ lastCause = "none"
    /\ lastWrapped = FALSE
    /\ lastCfg = NoCfg
    /\ lastFree = 0
    /\ calls = <<>>
    /\ args = <<>>
    /\ lastSample = 0
    /\ lastOut = NoResult
    /\ attempts = <<>>
    /\ loadResults = <<>>
    /\ pre = [model |-> model, tokenizer |-> tokenizer,
              flag |-> models_loaded]
    /\ ApartInit

\* CLIPManager(path, device) / VAEManager(..) / UNetManager(..): the
\* caller gets the object only if the constructor returns.
NewManager(m) ==
    /\ m \notin instances /\ "pipeline" \notin instances
    /\ \E r \in {ManagerInit(m, paths)} :
        /\ instances' = IF r = "ok" THEN instances \cup {m} ELSE instances
        /\ lastResult' = r
    /\ model' = [model EXCEPT ![m] = FALSE]
    /\ tokenizer' = (tokenizer /\ m # "clip")
    /\ lastOp' = "__init__"
    /\ lastMgr' = m
    /\ attempts' = <<>>
    /\ loadResults' = <<>>
    /\ NoGenerate
    /\ UNCHANGED <<apart, paths, lastRequired, device, cuda_available,
                   models_loaded, scope>>

\* GenerationPipeline(clip_path, vae_path, unet_path, device): the caller
\* gets the pipeline only if the constructor returns; _models_loaded is
\* set after the three managers are constructed.
NewPipeline ==
    /\ instances = {}
    /\ \E r \in {PipelineInit(paths)} :
        /\ instances' = IF r.result = "ok" THEN Managers \cup {"pipeline"}
                        ELSE instances
        /\ lastResult' = r.result
        /\ attempts' = r.attempts
        /\ loadResults' = r.loadResults
    /\ model' = [m \in Managers |-> FALSE]
    /\ tokenizer' = FALSE
    /\ models_loaded' = FALSE
    /\ lastOp' = "__init__"
    /\ lastMgr' = "pipeline"
    /\ NoGenerate
    /\ UNCHANGED <<apart, paths, lastRequired, device, cuda_available,
                   scope>>

CtorNext == NewPipeline \/ \E m \in Managers : NewManager(m)

CtorSpec == CtorInit /\ [][CtorNext]_vars

----------------------------------------------------------------------------
(* The MemoryManager used directly                                         *)

\* After MemoryManager(device): device is what the caller passed, "cuda"
\* by default, whether or not CUDA is available.
GuardInit ==
    /\ paths = Managers
    /\ instances = {"guard"}
    /\ lastRequired = 0
    /\ device \in Devices
    /\ cuda_available \in BOOLEAN
    /\ model = [m \in Managers |-> FALSE]
    /\ tokenizer = FALSE
    /\ models_loaded = FALSE
    /\ scope = {}
    /\ lastOp = "init"
    /\ lastMgr = "guard"
    /\ lastResult = "ok"
    /\ lastStage = "none"
    /\ lastCause = "none"
    /\ lastWrapped = FALSE
    /\ lastCfg = NoCfg
    /\ lastFree = 0
    /\ calls = <<>>
    /\ args = <<>>
    /\ lastSample = 0
    /\ lastOut = NoResult
    /\ attempts = <<>>
    /\ loadResults = <<>>
    /\ pre = [model |-> model, tokenizer |-> tokenizer,
              flag |-> models_loaded]
    /\ ApartInit

\* Amounts (MB) a caller may require: nothing, the guard's default
\* min_free_memory_mb, the pipeline's estimate and its neighbours, and the
\* amount tests/test_memory.py asks for.
RequiredChoices == {0, 256, 14999, 15000, 15001, 1000000}

\* Free device memory (MB) a guard may find: read on a CUDA guard only.
GuardFreeInputs ==
    IF is_cuda THEN {0, 256, 14999, 15000, 15001} ELSE {0}

\* What a call of the guard leaves alone: it writes no field of the guard
\* and touches no manager.
GuardFrame ==
    /\ lastMgr' = "guard"
    /\ lastStage' = "none"
    /\ lastCause' = "none"
    /\ lastWrapped' = FALSE
    /\ lastCfg' = NoCfg
    /\ calls' = <<>>
    /\ args' = <<>>
    /\ lastSample' = 0
    /\ lastOut' = NoResult
    /\ pre' = [model |-> model, tokenizer |-> tokenizer,
               flag |-> models_loaded]
    /\ UNCHANGED <<apart, paths, instances, device, cuda_available, model,
                   tokenizer, models_loaded, scope, attempts, loadResults>>

\* memory_manager.check_available_memory(required_mb)
GuardCheck ==
    /\ \E required_mb \in RequiredChoices, free_mb \in GuardFreeInputs :
        /\ lastResult' = IF check_available_memory(required_mb, free_mb)
                         THEN "True" ELSE "False"
        /\ lastRequired' = required_mb
        /\ lastFree' = free_mb
    /\ lastOp' = "check_available_memory"
    /\ GuardFrame

\* memory_manager.assert_memory_available(required_mb, operation_name)
GuardAssert ==
    /\ \E required_mb \in RequiredChoices, free_mb \in GuardFreeInputs :
        /\ lastResult' = assert_memory_available(required_mb, free_mb)
        /\ lastRequired' = required_mb
        /\ lastFree' = free_mb
    /\ lastOp' = "assert_memory_available"
    /\ GuardFrame

\* memory_manager.free_memory()
GuardFree ==
    /\ \E cache \in CacheInputs :
        lastResult' = free_memory(cache # "guard")
    /\ lastRequired' = 0
    /\ lastFree' = 0
    /\ lastOp' = "free_memory"
    /\ GuardFrame

\* memory_manager.get_free_gpu_memory_mb(): float("inf") off CUDA, else
\* what the device reports.
GuardGetFree ==
    /\ \E free_mb \in GuardFreeInputs :
        lastFree' = free_mb
    /\ lastResult' = IF ~is_cuda THEN "inf" ELSE "finite"
    /\ lastRequired' = 0
    /\ lastOp' = "get_free_gpu_memory_mb"
    /\ GuardFrame

GuardNext == GuardCheck \/ GuardAssert \/ GuardFree \/ GuardGetFree

GuardSpec == GuardInit /\ [][GuardNext]_vars

----------------------------------------------------------------------------
(* Exceptions constructed directly                                         *)

\* cls(message) or cls(message, user_message=...)
NewException(cls) ==
    /\ \E message \in Messages, user_message \in UserMessages :
        \E e \in {WanVidGenExceptionInit(message, user_message)} :
            exc' = [cls |-> cls,
                    given |-> [message |-> message,
                               user_message |-> user_message],
                    message |-> e.message,
                    user_message |-> e.user_message,
                    str |-> e.str]
    /\ UNCHANGED <<mm, vp, th, gui, core>>

ExcInit == Init /\ device = "cpu" /\ ~cuda_available

ExcNext == \E cls \in ExceptionClasses : NewException(cls)

ExcSpec == ExcInit /\ [][ExcNext]_vars

----------------------------------------------------------------------------
(* The ModelManager used directly                                          *)

\* What Llama(model_path=...) does when load_model() calls it.
LlamaOutcomes == {"ok", "raises"}

\* model_manager.load_model(): Llama is called if llama_cpp was imported
\* and the configuration names a model path; where it is not called, and
\* where it raises, the manager falls back to simulation. model_loaded is
\* set on every path and True is returned.
MMLoad ==
    /\ \E has_llama_cpp \in BOOLEAN, has_path \in BOOLEAN,
          llama \in LlamaOutcomes :
        mm' = [mm EXCEPT
                  !.model = IF has_llama_cpp /\ has_path
                            THEN (IF llama = "ok" THEN TRUE ELSE @)
                            ELSE @,
                  !.model_loaded = TRUE,
                  !.since_load = TRUE,
                  !.op = "load_model",
                  !.kw = Kwargs(None, None, None, None),
                  !.cb = "none",
                  !.ret = Returned("True", "", <<>>, 0, 0, 0),
                  !.made = 0,
                  !.callbacks = <<>>]
    /\ UNCHANGED <<exc, vp, th, gui, core>>

\* model_manager.unload_model()
MMUnload ==
    /\ mm' = [mm EXCEPT !.model = FALSE,
                        !.model_loaded = FALSE,
                        !.since_load = FALSE,
                        !.op = "unload_model",
                        !.kw = Kwargs(None, None, None, None),
                        !.cb = "none",
                        !.ret = NoReturn,
                        !.made = 0,
                        !.callbacks = <<>>]
    /\ UNCHANGED <<exc, vp, th, gui, core>>

\* model_manager.generate(prompt, **kwargs)
MMGenerateCall ==
    /\ \E kw \in KwargChoices, cb \in CallbackChoices :
        \E r \in {MMGenerate(mm.model_loaded, kw, cb)} :
            mm' = [mm EXCEPT !.op = "generate",
                             !.kw = kw,
                             !.cb = cb,
                             !.ret = r.ret,
                             !.made = r.made,
                             !.callbacks = r.callbacks]
    /\ UNCHANGED <<exc, vp, th, gui, core>>

MMInit == Init /\ device = "cpu" /\ ~cuda_available

MMNext == MMLoad \/ MMUnload \/ MMGenerateCall

MMSpec == MMInit /\ [][MMNext]_vars

----------------------------------------------------------------------------
(* generate_video called from threads                                      *)

\* Whether a step of generate_video may raise: it may if it calls
\* Path.mkdir or open() (io), or a callback the caller passed; the
\* callbacks of the GUI only put on an unbounded queue.
MayFail(c, io, callback) ==
    IF io \/ (callback /\ ~c.gui) THEN BOOLEAN ELSE {FALSE}

\* generate_video, lines 56-57: the call is rejected if is_generating is
\* set, and admitted otherwise.
VideoCall(t, steps, pcb, scb, g) ==
    /\ th[t].pc = "idle"
    /\ th' = [th EXCEPT ![t] =
                IF vp.is_generating
                THEN [NoCall EXCEPT !.ret = "RuntimeError"]
                ELSE [pc |-> "admitted", steps |-> steps, i |-> 0,
                      progress_callback |-> pcb, status_callback |-> scb,
                      gui |-> g, ret |-> "none", cancelled |-> FALSE,
                      saved |-> FALSE]]
    /\ vp' = [vp EXCEPT !.ev = IF vp.is_generating
                               THEN Ev(t, "rejected", vp.is_generating)
                               ELSE Ev("none", "step", FALSE)]

\* lines 59-60
VideoSet(t) ==
    /\ th[t].pc = "admitted"
    /\ th' = [th EXCEPT ![t].pc = "try"]
    /\ vp' = [vp EXCEPT !.is_generating = TRUE,
                        !.current_progress = 0,
                        !.ev = Ev("none", "step", FALSE)]
    /\ UNCHANGED gui

\* lines 63-74 and 97-107: the status callback, mkdir, and the three
\* progress callbacks before the loop, none of which reads is_generating.
VideoBegin(t) ==
    /\ th[t].pc = "try"
    /\ \E fails \in MayFail(th[t], TRUE, TRUE) :
        /\ th' = [th EXCEPT ![t].pc = IF fails THEN "finally"
                                      ELSE IF th[t].steps = 0 THEN "after"
                                      ELSE "loop",
                            ![t].ret = IF fails THEN "raised" ELSE @]
        /\ gui' = Put(gui, th[t].gui,
                      <<"status", "progress", "progress", "progress">>)
    /\ vp' = [vp EXCEPT !.ev = Ev("none", "step", FALSE)]

\* lines 110-120, iteration i: the loop is left if is_generating is clear;
\* else the progress callback is called and the thread sleeps.
VideoStep(t) ==
    /\ th[t].pc = "loop"
    /\ IF ~vp.is_generating
       THEN /\ th' = [th EXCEPT ![t].pc = "after"]
            /\ UNCHANGED gui
       ELSE \E fails \in MayFail(th[t], FALSE, th[t].progress_callback) :
            /\ th' = [th EXCEPT
                         ![t].pc = IF fails THEN "finally"
                                   ELSE IF th[t].i + 1 = th[t].steps
                                   THEN "after" ELSE "loop",
                         ![t].i = IF fails THEN @ ELSE @ + 1,
                         ![t].ret = IF fails THEN "raised" ELSE @]
            /\ gui' = Put(gui, th[t].gui /\ th[t].progress_callback,
                          <<"progress">>)
    /\ vp' = [vp EXCEPT !.ev = Ev("none", "step", FALSE)]

\* lines 122-125: if is_generating is clear the call reports 'Generation
\* cancelled' and returns the empty string.
VideoAfter(t) ==
    /\ th[t].pc = "after"
    /\ IF ~vp.is_generating
       THEN \E fails \in MayFail(th[t], FALSE, th[t].status_callback) :
            /\ th' = [th EXCEPT ![t].pc = "finally",
                                ![t].ret = IF fails THEN "raised" ELSE ""]
            /\ gui' = Put(gui, th[t].gui /\ th[t].status_callback,
                          <<"status">>)
       ELSE /\ th' = [th EXCEPT ![t].pc = "finalize"]
            /\ UNCHANGED gui
    /\ vp' = [vp EXCEPT !.ev = Ev("none", "step", FALSE)]

\* lines 127-148: the last two progress callbacks, the file is written,
\* output_path is set, 'Video saved' is reported and the file's path is
\* returned; is_generating is not read.
VideoFinalize(t) ==
    /\ th[t].pc = "finalize"
    /\ \E fails \in MayFail(th[t], TRUE, TRUE) :
        /\ th' = [th EXCEPT ![t].pc = "finally",
                            ![t].ret = IF fails THEN "raised" ELSE "file",
                            ![t].saved = ~fails]
        /\ vp' = [vp EXCEPT !.output_path = IF fails THEN @ ELSE <<t>>,
                            !.ev = Ev("none", "step", FALSE)]
        /\ gui' = Put(gui, th[t].gui, <<"progress", "progress", "status">>)

\* line 77, the first assignment of the finally block
VideoFinally(t) ==
    /\ th[t].pc = "finally"
    /\ th' = [th EXCEPT ![t].pc = "finally2"]
    /\ vp' = [vp EXCEPT !.is_generating = FALSE,
                        !.ev = Ev("none", "step", FALSE)]
    /\ UNCHANGED gui

\* line 78, the second one; the call returns or the exception goes on.
VideoReturn(t) ==
    /\ th[t].pc = "finally2"
    /\ th' = [th EXCEPT ![t] = [NoCall EXCEPT !.ret = th[t].ret,
                                              !.cancelled = th[t].cancelled,
                                              !.saved = th[t].saved]]
    /\ vp' = [vp EXCEPT !.current_progress = 0,
                        !.ev = Ev(t, IF th[t].ret = "raised" THEN "raised"
                                     ELSE "returned", FALSE)]
    /\ UNCHANGED gui

\* The steps of a call once it is made.
VideoRun(t) ==
    \/ VideoSet(t)
    \/ VideoBegin(t)
    \/ VideoStep(t)
    \/ VideoAfter(t)
    \/ VideoFinalize(t)
    \/ VideoFinally(t)
    \/ VideoReturn(t)

\* pipeline.cancel_generation(), from any thread
cancel_generation ==
    /\ vp' = [vp EXCEPT !.is_generating = FALSE,
                        !.ev = Ev("none", "cancel", FALSE)]
    /\ th' = [t \in Callers |->
                [th[t] EXCEPT !.cancelled =
                    @ \/ th[t].pc \in {"admitted", "try", "loop", "after",
                                        "finalize"}]]

\* progress_callback and status_callback as callers pass them: neither
\* (the default) or both.
CallbackArgs == {<<FALSE, FALSE>>, <<TRUE, TRUE>>}

\* A thread calls pipeline.generate_video(prompt, steps=..., ...) with or
\* without callbacks.
ThreadCall(t) ==
    /\ \E steps \in 0..MaxVideoSteps, cbs \in CallbackArgs :
        VideoCall(t, steps, cbs[1], cbs[2], FALSE)
    /\ UNCHANGED <<exc, mm, gui, core>>

ThreadRun(t) == VideoRun(t) /\ UNCHANGED <<exc, mm, core>>

ThreadCancel == cancel_generation /\ UNCHANGED <<exc, mm, gui, core>>

VideoInit == Init /\ device = "cpu" /\ ~cuda_available

VideoNext ==
    \/ \E t \in Callers : ThreadCall(t)
    \/ \E t \in Callers : ThreadRun(t)
    \/ ThreadCancel

VideoSpec == VideoInit /\ [][VideoNext]_vars

----------------------------------------------------------------------------
(* The GUI and its background generation                                   *)

\* The thread of _run_generation.
Worker == "t1"

\* _generate_video, on the main thread: a warning if a generation is in
\* progress, an error box if the form lacks a prompt or an output
\* directory; else the buttons are switched, is_generating is set and the
\* thread is started.
GuiGenerate ==
    /\ \E form_ok \in BOOLEAN :
        gui' = IF gui.is_generating THEN [gui EXCEPT !.ev = "warning"]
               ELSE IF ~form_ok THEN [gui EXCEPT !.ev = "form_error"]
               ELSE [gui EXCEPT !.generate_button = "disabled",
                                !.cancel_button = "normal",
                                !.is_generating = TRUE,
                                !.worker = "begin",
                                !.sent = <<>>,
                                !.ev = "started"]
    /\ UNCHANGED <<exc, mm, vp, th, core>>

\* _run_generation, up to line 57 of generate_video: the parameters are
\* read from the form, which may raise on the worker thread, and the
\* pipeline is called with the two callbacks.
GuiWorkerBegin ==
    /\ gui.worker = "begin"
    /\ \E params_fail \in BOOLEAN :
        IF params_fail
        THEN /\ gui' = [gui EXCEPT !.worker = "failed", !.ev = "worker"]
             /\ UNCHANGED <<vp, th>>
        ELSE /\ \E steps \in 1..MaxVideoSteps :
                    VideoCall(Worker, steps, TRUE, TRUE, TRUE)
             /\ gui' = [gui EXCEPT !.worker = "call", !.ev = "worker"]
    /\ UNCHANGED <<exc, mm, core>>

\* The worker inside generate_video.
GuiWorkerRun ==
    /\ gui.worker = "call"
    /\ VideoRun(Worker)
    /\ UNCHANGED <<exc, mm, core>>

\* _run_generation, lines 524-527: 'success' with what generate_video
\* returned is put, or 'error' if an exception came out of the try block.
GuiWorkerResult ==
    /\ \/ gui.worker = "failed"
       \/ gui.worker = "call" /\ th[Worker].pc = "idle"
    /\ \E msg \in {IF gui.worker = "call"
                        /\ th[Worker].ret \in {"", "file"}
                     THEN "success" ELSE "error"} :
        gui' = [gui EXCEPT !.log_queue = Append(@, msg),
                           !.sent = Append(@, msg),
                           !.worker = "finally",
                           !.ev = "worker"]
    /\ UNCHANGED <<exc, mm, vp, th, core>>

\* GuiWorkerFinally as it would be if 'done' were put at the end of the
\* try block instead of in a finally clause.
GuiWorkerFinallyOnSuccessOnly ==
    /\ gui.worker = "finally"
    /\ gui' = [gui EXCEPT
                  !.log_queue = IF gui.sent = <<"success">>
                                THEN Append(@, "done") ELSE @,
                  !.sent = IF gui.sent = <<"success">>
                           THEN Append(@, "done") ELSE @,
                  !.worker = "none",
                  !.ev = "worker"]
    /\ UNCHANGED <<exc, mm, vp, th, core>>

\* _run_generation, the finally clause: 'done' is put and the thread ends.
GuiWorkerFinally ==
    /\ gui.worker = "finally"
    /\ gui' = [gui EXCEPT !.log_queue = Append(@, "done"),
                          !.sent = Append(@, "done"),
                          !.worker = "none",
                          !.ev = "worker"]
    /\ UNCHANGED <<exc, mm, vp, th, core>>

\* _cancel_generation, on the main thread
GuiCancel ==
    /\ IF gui.is_generating
       THEN cancel_generation
       ELSE UNCHANGED <<vp, th>>
    /\ gui' = [gui EXCEPT !.ev = "cancel"]
    /\ UNCHANGED <<exc, mm, core>>

\* _process_log_queue, run every 100 ms on the main thread, one message
\* of its loop: 'done' switches the buttons back and clears
\* is_generating; the other messages update labels, the progress bar and
\* the log pane.
GuiPoll ==
    /\ gui.log_queue # <<>>
    /\ gui' = IF Head(gui.log_queue) = "done"
              THEN [gui EXCEPT !.log_queue = Tail(@),
                               !.generate_button = "normal",
                               !.cancel_button = "disabled",
                               !.is_generating = FALSE,
                               !.ev = "handled_done"]
              ELSE [gui EXCEPT !.log_queue = Tail(@),
                               !.ev = "handled"]
    /\ UNCHANGED <<exc, mm, vp, th, core>>

GuiInit == Init /\ device = "cpu" /\ ~cuda_available

GuiWorkerNext ==
    GuiWorkerBegin \/ GuiWorkerRun \/ GuiWorkerResult \/ GuiWorkerFinally

GuiNext == GuiGenerate \/ GuiCancel \/ GuiPoll \/ GuiWorkerNext

GuiSpec == GuiInit /\ [][GuiNext]_vars

\* The worker thread runs on until it ends (its loop is bounded and its
\* sleeps are finite), and the main loop calls the poller every 100 ms.
GuiLiveSpec ==
    GuiSpec /\ WF_vars(GuiWorkerNext) /\ WF_vars(GuiPoll)

----------------------------------------------------------------------------
(* Properties                                                              *)

AllLoaded(mdl) == \A m \in Managers : is_loaded(mdl, m)

NoneLoaded(mdl) == \A m \in Managers : ~is_loaded(mdl, m)

\* A call of the last generate() reached the encoder, the denoiser or the
\* autoencoder.
ModelCalled == \E i \in 1..Len(calls) : calls[i].mgr \in Managers

C2_IsLoadedIffAllLoaded ==
    lastResult \notin OtherKinds
    => (pipeline_is_loaded(models_loaded) <=> AllLoaded(model))

\* C3: after a manager's load() has raised ModelLoadError the manager is
\* not loaded.
C3_FailedLoadLeavesUnloaded ==
    (lastMgr \in Managers /\ lastOp = "load"
        /\ lastResult = "ModelLoadError")
    => ~is_loaded(model, lastMgr)

\* C4: generate() on a pipeline that is not loaded raises PipelineError,
\* whatever the request.
C4_GenerateUnloadedRaisesPipelineError ==
    (lastOp = "generate" /\ ~pipeline_is_loaded(pre.flag))
    => lastResult = "PipelineError"

\* An invalid request met PipelineError, not GenerationError.
C4_Witness ==
    /\ lastOp = "generate" /\ ~pipeline_is_loaded(pre.flag)
    /\ ValidationError(lastCfg) # "ok"
    /\ lastResult = "PipelineError"

\* C5: when a loaded pipeline's generate() rejects an invalid request, it
\* raises GenerationError having called neither the guard's capacity check
\* nor any encoder, denoiser or autoencoder operation.
C5_ValidationBeforeGuardAndModels ==
    (lastOp = "generate" /\ pipeline_is_loaded(pre.flag)
        /\ ValidationError(lastCfg) # "ok")
    => (lastResult = "GenerationError" /\ ~lastWrapped /\ calls = <<>>)

\* An invalid request rejected on a CUDA device short of memory.
C5_Witness ==
    /\ lastOp = "generate" /\ pipeline_is_loaded(pre.flag)
    /\ ValidationError(lastCfg) # "ok"
    /\ is_cuda /\ lastFree < EstimatedRequiredMb
    /\ lastResult = "GenerationError"

\* C6: when the capacity check of a valid request on a loaded pipeline
\* fails, generate() raises GPUMemoryError itself and no encoder, denoiser
\* or autoencoder operation has been called.
C6_PreflightFailureIsGPUMemoryError ==
    (lastOp = "generate" /\ pipeline_is_loaded(pre.flag)
        /\ ValidationError(lastCfg) = "ok"
        /\ is_cuda /\ lastFree < EstimatedRequiredMb)
    => (lastResult = "GPUMemoryError" /\ ~lastWrapped /\ ~ModelCalled)

C6_Witness ==
    /\ lastOp = "generate" /\ pipeline_is_loaded(pre.flag)
    /\ ValidationError(lastCfg) = "ok"
    /\ is_cuda /\ lastFree < EstimatedRequiredMb
    /\ lastResult = "GPUMemoryError"
    /\ calls = <<GuardCall>>

C8_GenerateKeepsResidency ==
    /\ lastOp = "generate"
        => /\ model = pre.model
           /\ tokenizer = pre.tokenizer
           /\ models_loaded = pre.flag
    /\ (lastMgr = "pipeline"
            /\ (model # pre.model \/ models_loaded # pre.flag))
        => lastOp \in {"load", "unload", "enter", "exit"}

\* generate() raised from its try block on a fully loaded pipeline.
C8_Witness ==
    /\ lastOp = "generate" /\ lastStage = "body"
    /\ lastResult = "GenerationError"
    /\ pre.flag /\ AllLoaded(pre.model)
    /\ models_loaded /\ AllLoaded(model)

\* C9: after a `with` scope of a manager or of the pipeline has been left,
\* normally or by an exception, its is_loaded() is false.
C9_ScopeExitUnloads ==
    lastOp = "exit"
    => IF lastMgr = "pipeline" THEN ~pipeline_is_loaded(models_loaded)
       ELSE ~is_loaded(model, lastMgr)

\* C10: a manager's load() on a loaded manager returns and changes
\* nothing, its unload() on an unloaded manager changes nothing, and after
\* every unload() the manager is not loaded.
C10_LoadUnloadIdempotent ==
    lastMgr \in Managers
    => /\ (lastOp = "load" /\ is_loaded(pre.model, lastMgr))
            => /\ lastResult = "ok"
               /\ model = pre.model /\ tokenizer = pre.tokenizer
       /\ (lastOp = "unload" /\ ~is_loaded(pre.model, lastMgr))
            => (model = pre.model /\ tokenizer = pre.tokenizer)
       /\ lastOp = "unload" => ~is_loaded(model, lastMgr)

\* load() was called on a manager that was loaded.
C10_Witness ==
    /\ lastMgr = "clip" /\ lastOp = "load"
    /\ is_loaded(pre.model, "clip") /\ pre.tokenizer
    /\ lastResult = "ok" /\ is_loaded(model, "clip")

\* The last load() went as the loaders of the repository make it go.
PlaceholderLoadRan ==
    /\ lastOp = "load"
    /\ IF lastMgr = "pipeline"
       THEN \E r \in {PipelineLoad(pre.model, pre.tokenizer, pre.flag,
                                    PlaceholderOuts, "none")} :
                /\ model = r.model /\ tokenizer = r.tokenizer
                /\ models_loaded = r.flag
                /\ lastResult = r.result /\ attempts = r.attempts
       ELSE \E r \in {ManagerLoad(lastMgr, pre.model, pre.tokenizer,
                                  PlaceholderOutcome(lastMgr))} :
                /\ model = r.model /\ tokenizer = r.tokenizer
                /\ lastResult = r.result

\* C11: on a CPU device and existing weight files, a load() of the
\* pipeline or of a manager that runs the repository's loaders returns
\* without raising and is_loaded() is true afterwards.
C11_LoadReturnsLoaded ==
    (device = "cpu" /\ ~cuda_available /\ PlaceholderLoadRan)
    => /\ lastResult = "ok"
       /\ IF lastMgr = "pipeline" THEN pipeline_is_loaded(models_loaded)
          ELSE is_loaded(model, lastMgr)

\* C12: pipeline.load() (called directly or on entering a scope) calls the
\* managers' load() in the order CLIP, VAE, UNet, every call but the last
\* one made has returned, and it stops short of UNet only when a call has
\* raised.
C12_LoadOrderStopsAtFailure ==
    (lastMgr = "pipeline" /\ lastOp \in {"load", "enter"})
    => /\ \E k \in 1..Len(LoadOrder) : attempts = SubSeq(LoadOrder, 1, k)
       /\ Len(loadResults) = Len(attempts)
       /\ \A i \in 1..(Len(attempts) - 1) : loadResults[i] = "ok"
       /\ Len(attempts) < Len(LoadOrder)
            => loadResults[Len(attempts)] # "ok"

\* The VAE load raised after the CLIP load had returned; UNet, which was
\* not loaded before, was not tried.
C12_Witness ==
    /\ lastMgr = "pipeline" /\ lastOp = "load"
    /\ NoneLoaded(pre.model)
    /\ attempts = <<"clip", "vae">>
    /\ loadResults = <<"ok", "ModelLoadError">>
    /\ lastResult = "PipelineError"

\* C13: a domain operation (encode_text, encode, decode, denoise, forward)
\* called on a manager that is not loaded raises ModelLoadError and the
\* manager is still not loaded afterwards.
C13_UnloadedDomainOpRaises ==
    (lastMgr \in Managers /\ lastOp \in ManagerOps(lastMgr)
        /\ ~is_loaded(pre.model, lastMgr))
    => /\ lastResult = "ModelLoadError"
       /\ ~is_loaded(model, lastMgr)
       /\ model = pre.model /\ tokenizer = pre.tokenizer

\* forward() was called on an unloaded UNet manager while the other two
\* managers were loaded.
C13_Witness ==
    /\ lastMgr = "unet" /\ lastOp = "forward"
    /\ ~is_loaded(pre.model, "unet")
    /\ is_loaded(model, "clip") /\ is_loaded(model, "vae")
    /\ lastResult = "ModelLoadError"

\* How many calls of `op` the last generate() made.
CountOp(op) == Cardinality({i \in 1..Len(calls) : calls[i].op = op})

\* The last generate() was called on a loaded pipeline with a request that
\* passes validation and the capacity check, and no call of its try block
\* raised.
CleanGenerate ==
    /\ lastOp = "generate" /\ pipeline_is_loaded(pre.flag)
    /\ ValidationError(lastCfg) = "ok"
    /\ check_memory_requirements(lastCfg, lastFree) = "ok"
    /\ lastCause = "none"

\* C14: a generate() with a valid request on a loaded pipeline in which no
\* operation fails returns, and has called the denoiser exactly
\* num_inference_steps times.
C14_DenoiseCountEqualsSteps ==
    CleanGenerate
    => /\ lastResult = "result" /\ lastStage = "returned"
       /\ CountOp("denoise") = lastCfg.num_inference_steps

\* A request of MaxSteps steps was served.
C14_Witness ==
    /\ CleanGenerate
    /\ lastCfg.num_inference_steps = MaxSteps
    /\ CountOp("denoise") = MaxSteps
    /\ lastResult = "result"

\* The positions in `calls` of the calls of `op`.
Positions(op) == {i \in 1..Len(calls) : calls[i].op = op}

\* C15: in one generate() the text encoder is called for the prompt first
\* and once more, for the negative prompt, only if that is not empty, all
\* before the first denoise; the first denoise is given the initial latent
\* and every later one the latent the previous denoise returned; every
\* decode comes after the last denoise.
C15_EncodeThenChainedDenoiseThenDecode ==
    lastOp = "generate"
    => /\ CountOp("encode_text")
            <= (IF lastCfg.negative_prompt # "" THEN 2 ELSE 1)
       /\ \A e \in Positions("encode_text") :
            /\ \A d \in Positions("denoise") : e < d
            /\ args[e].text =
                 IF \E f \in Positions("encode_text") : f < e
                 THEN lastCfg.negative_prompt ELSE lastCfg.prompt
       /\ Positions("denoise") # {}
            => CountOp("encode_text")
                 = (IF lastCfg.negative_prompt # "" THEN 2 ELSE 1)
       /\ \A d \in Positions("denoise") :
            /\ calls[d - 1].op \in {"randn", "denoise"}
            /\ args[d].latent = args[d - 1].out
            /\ args[d].latent # 0
       /\ \A k \in Positions("decode"), d \in Positions("denoise") : d < k

\* A request with a negative prompt and MaxSteps steps was served.
C15_Witness ==
    /\ lastOp = "generate" /\ lastResult = "result"
    /\ lastCfg.negative_prompt # ""
    /\ CountOp("encode_text") = 2
    /\ CountOp("denoise") = MaxSteps /\ MaxSteps > 1
    /\ CountOp("decode") = NumFrames

\* The timesteps given to the denoiser by the last generate(), in order.
Timesteps ==
    LET den == SelectSeq(args, LAMBDA a : a.timestep # -1)
    IN  [i \in 1..Len(den) |-> den[i].timestep]

\* C16 as stated: the timesteps of a served request are non-increasing,
\* start at 1000 and are 0 at the last iteration.
C16_TimestepsReachZero ==
    (lastOp = "generate" /\ lastResult = "result")
    => /\ Len(Timesteps) = lastCfg.num_inference_steps
       /\ Timesteps[1] = MaxTimestep
       /\ \A i, j \in 1..Len(Timesteps) : i < j => Timesteps[i] >= Timesteps[j]
       /\ Timesteps[Len(Timesteps)] = 0

\* C16 amended: the timesteps of a served request are non-increasing and
\* start at 1000; the last one is 1000 divided by num_inference_steps,
\* rounded down (or one less), and is above 0 for up to 1000 steps.
C16_TimestepsDescendFromMax ==
    (lastOp = "generate" /\ lastResult = "result")
    => /\ Len(Timesteps) = lastCfg.num_inference_steps
       /\ Timesteps[1] = MaxTimestep
       /\ \A i, j \in 1..Len(Timesteps) : i < j => Timesteps[i] >= Timesteps[j]
       /\ \E t \in {Timesteps[Len(Timesteps)]} :
            /\ t \in {MaxTimestep \div lastCfg.num_inference_steps,
                      MaxTimestep \div lastCfg.num_inference_steps - 1}
            /\ t >= 0
            /\ lastCfg.num_inference_steps <= MaxTimestep => t > 0

\* A request of MaxSteps steps was served, its last timestep above 0 and
\* below 1000.
C16_Witness ==
    /\ lastOp = "generate" /\ lastResult = "result"
    /\ Len(Timesteps) = MaxSteps /\ MaxSteps > 1
    /\ Timesteps[MaxSteps] > 0
    /\ Timesteps[MaxSteps] < MaxTimestep

\* C17: two consecutive generate() calls of one pipeline with the same
\* request (same seed, same prompt) that both build an initial latent
\* build the same one.
C17_SameRequestSameLatent ==
    [][(/\ lastOp = "generate" /\ lastSample # 0
        /\ lastOp' = "generate" /\ lastSample' # 0
        /\ lastCfg' = lastCfg)
       => lastSample' = lastSample]_vars

\* The prompts tried that consist of whitespace only.
WhitespaceOnly == {" "}

\* C18: generate() on a loaded pipeline raises GenerationError when the
\* prompt is empty or consists of whitespace only.
C18_BlankPromptRejected ==
    (lastOp = "generate" /\ pipeline_is_loaded(pre.flag)
        /\ (lastCfg.prompt = "" \/ lastCfg.prompt \in WhitespaceOnly))
    => lastResult = "GenerationError"

\* C19: generate() on a loaded pipeline raises GenerationError when
\* height <= 0, width <= 0, num_inference_steps < 1 or fps < 1.
C19_BadNumbersRejected ==
    (lastOp = "generate" /\ pipeline_is_loaded(pre.flag)
        /\ (\/ lastCfg.height <= 0 \/ lastCfg.width <= 0
            \/ lastCfg.num_inference_steps < 1 \/ lastCfg.fps < 1))
    => lastResult = "GenerationError"

\* A request with height 0 and nothing else wrong was rejected on a loaded
\* pipeline.
C19_Witness ==
    /\ lastOp = "generate" /\ pipeline_is_loaded(pre.flag)
    /\ lastCfg.prompt = "a test scene"
    /\ lastCfg.height = 0 /\ lastCfg.width > 0
    /\ lastCfg.num_inference_steps >= 1 /\ lastCfg.fps >= 1
    /\ lastResult = "GenerationError" /\ lastStage = "validation"

\* C20: the result generate() returns has metadata height, width, fps and
\* seed equal to the request's, a positive frame count, and
\* get_frame_count() equal to metadata["num_frames"].
C20_ResultMetadataMatchesRequest ==
    (lastOp = "generate" /\ lastResult = "result")
    => /\ lastOut.metadata.height = lastCfg.height
       /\ lastOut.metadata.width = lastCfg.width
       /\ lastOut.metadata.fps = lastCfg.fps
       /\ lastOut.metadata.seed = lastCfg.seed
       /\ get_frame_count(lastOut) > 0
       /\ get_frame_count(lastOut) = lastOut.metadata.num_frames

\* A request with a seed other than the default was served.
C20_Witness ==
    /\ lastOp = "generate" /\ lastResult = "result"
    /\ lastCfg.seed # DefaultSeed
    /\ lastOut.metadata.seed = lastCfg.seed
    /\ get_frame_count(lastOut) = NumFrames

\* C21: a generate() that has ended has returned a result only if every
\* call of its plan was made and none raised, and the result then holds
\* all NumFrames frames; if a call raised, also because another thread
\* unloaded its manager while the generation was in flight, the caller
\* got GenerationError and no result, and a generation that has not ended
\* has handed out no result.
C21_ResultOnlyWhenEveryStepSucceeded ==
    lastOp = "generate"
    => /\ lastResult = "result"
            => /\ lastCause = "none"
               /\ Len(calls) = Len(PlannedCalls(lastCfg)) + 1
               /\ get_frame_count(lastOut) = NumFrames
               /\ get_frame_count(lastOut) = CountOp("decode")
       /\ lastCause # "none"
            => (lastResult = "GenerationError" /\ lastOut = NoResult)
       /\ lastResult # "result" => lastOut = NoResult

\* The autoencoder was unloaded by another thread after the generation
\* had decoded some frames: the next decode raised ModelLoadError and the
\* caller got GenerationError.
C21_Witness ==
    /\ lastOp = "generate" /\ lastStage = "body"
    /\ AllLoaded(pre.model) /\ ~is_loaded(model, "vae")
    /\ CountOp("decode") > 2
    /\ lastCause = "ModelLoadError"
    /\ lastResult = "GenerationError" /\ lastOut = NoResult

\* What generate() called directly can come to for the last request, from
\* the residency and the free memory found when the worker began: one
\* outcome for every call of the try block that may raise.
SyncOutcomes ==
    {Generate(lastCfg, pre.flag, pre.model, lastFree, fault) :
        fault \in {NoFault}
                  \cup [op : FaultOps, nth : 1..NumFrames, kind : OtherKinds]}

\* C22: a generate_async() that has resolved while no other thread
\* unloaded a manager has come to an outcome of generate() on the same
\* pipeline state and request: the same error from the same check, or the
\* same calls and a result with the same frames and metadata.
C22_AsyncResolvesAsSync ==
    (lastOp = "generate" /\ lastStage # "running"
        /\ model = pre.model /\ tokenizer = pre.tokenizer)
    => [result |-> lastResult, stage |-> lastStage, cause |-> lastCause,
        wrapped |-> lastWrapped, calls |-> calls, args |-> args,
        out |-> lastOut] \in SyncOutcomes

\* The worker has made every call of a request and resolved to a result.
C22_Witness ==
    /\ lastOp = "generate" /\ lastStage = "returned"
    /\ model = pre.model /\ tokenizer = pre.tokenizer
    /\ lastResult = "result"
    /\ Len(calls) = Len(PlannedCalls(lastCfg)) + 1
    /\ lastOut.metadata = Metadata(lastCfg, lastOut.frames)

\* C23: when generate() raises GPUMemoryError, the capacity check raised
\* it and no encoder, denoiser or autoencoder operation had been called;
\* a GPUMemoryError (or another exception) raised by a call of the try
\* block reaches the caller as a new GenerationError.
C23_MemoryErrorOnlyFromPreflight ==
    lastOp = "generate"
    => /\ lastResult = "GPUMemoryError"
            => /\ lastStage = "preflight" /\ lastCause = "none"
               /\ calls = <<GuardCall>>
               /\ is_cuda /\ lastFree < EstimatedRequiredMb
       /\ (lastStage = "body"
        /\ lastCause \in {"GPUMemoryError"} \cup OtherKinds)
            => (lastResult = "GenerationError" /\ lastWrapped)

\* The first denoise call raised GPUMemoryError after a capacity check
\* that had passed on a CUDA device.
C23_Witness ==
    /\ lastOp = "generate" /\ lastStage = "body"
    /\ is_cuda /\ lastFree >= EstimatedRequiredMb
    /\ calls[Len(calls)] = Call("denoise", "unet")
    /\ lastCause = "GPUMemoryError"
    /\ lastResult = "GenerationError" /\ lastWrapped

\* Some manager's constructor raises for the weight files that exist.
SomeManagerInitFails == \E m \in Managers : ManagerInit(m, paths) # "ok"

C25_MissingPathRaisesConfigError ==
    (lastOp = "__init__" /\ lastMgr = "pipeline" /\ paths # Managers)
    => lastResult = "ConfigError"

\* C26: constructing a manager on an existing weight path returns a
\* manager that is not loaded; on a path that does not exist it raises
\* ConfigError and the caller gets no manager.
C26_ManagerConstruction ==
    (lastOp = "__init__" /\ lastMgr \in Managers)
    => /\ lastMgr \in paths
            => /\ lastResult = "ok"
               /\ lastMgr \in instances
               /\ ~is_loaded(model, lastMgr)
       /\ lastMgr \notin paths
            => (lastResult = "ConfigError" /\ lastMgr \notin instances)

\* A VAE manager was constructed on an existing file after the
\* construction of a CLIP manager on a missing file had failed.
C26_Witness ==
    /\ lastOp = "__init__" /\ lastMgr = "vae"
    /\ "vae" \in paths /\ "clip" \notin paths
    /\ lastResult = "ok"
    /\ instances = {"vae"}
    /\ ~is_loaded(model, "vae")

\* C27: after pipeline.unload(), called in any state, none of the three
\* managers is loaded and pipeline.is_loaded() is false.
C27_UnloadUnloadsEverything ==
    (lastMgr = "pipeline" /\ lastOp = "unload")
    => (NoneLoaded(model) /\ ~pipeline_is_loaded(models_loaded))

\* C28: a manager's unload() never raises, and the manager is not loaded
\* after it.
C28_ManagerUnloadNeverRaises ==
    (lastMgr \in Managers /\ lastOp = "unload")
    => (lastResult = "ok" /\ ~is_loaded(model, lastMgr))

\* C29: on a CUDA guard assert_memory_available(required, label) raises
\* GPUMemoryError exactly when check_available_memory(required) is false on
\* the same free memory, that is exactly when required exceeds the free
\* memory; otherwise it returns, and in both cases it changes nothing.
C29_AssertRaisesIffCheckFails ==
    (is_cuda /\ lastMgr = "guard" /\ lastOp = "assert_memory_available")
    => /\ lastResult \in {"ok", "GPUMemoryError"}
       /\ (lastResult = "GPUMemoryError")
          <=> ~check_available_memory(lastRequired, lastFree)
       /\ (lastResult = "GPUMemoryError") <=> (lastRequired > lastFree)
       /\ model = pre.model /\ tokenizer = pre.tokenizer
       /\ models_loaded = pre.flag

\* The guard was asked for exactly what is free, and returned.
C29_Witness ==
    /\ is_cuda /\ lastMgr = "guard" /\ lastOp = "assert_memory_available"
    /\ lastRequired = 15000 /\ lastFree = 15000
    /\ lastResult = "ok"

\* C30: off CUDA check_available_memory(required) is true and
\* assert_memory_available(required, label) returns, whatever is required.
C30_UnboundedDeviceNeverRefuses ==
    (~is_cuda /\ lastMgr = "guard")
    => /\ lastOp = "check_available_memory" => lastResult = "True"
       /\ lastOp = "assert_memory_available" => lastResult = "ok"

\* A guard off CUDA was asked for a million MB, and said yes.
C30_Witness ==
    /\ ~is_cuda /\ lastMgr = "guard" /\ lastOp = "check_available_memory"
    /\ lastRequired = 1000000
    /\ lastResult = "True"

\* C31: on a CUDA guard assert_memory_available raises GPUMemoryError
\* whenever the free device memory is below min_free_memory_mb.
C31_ThresholdEnforced ==
    (is_cuda /\ lastMgr = "guard" /\ lastOp = "assert_memory_available"
        /\ lastFree < min_free_memory_mb)
    => lastResult = "GPUMemoryError"

\* C32: an exception keeps the technical message it was given; its
\* user_message is that message when none was supplied, and the supplied
\* one otherwise.
C32_MessagesKeptAsGiven ==
    exc.cls # "none"
    => /\ exc.message = exc.given.message
       /\ exc.given.user_message = None => exc.user_message = exc.message
       /\ exc.given.user_message # None
          => exc.user_message = exc.given.user_message[1]

\* C33: with a callback generate() returns what it returns without one,
\* for the same loaded state and the same other arguments.
C33_CallbackDoesNotChangeResult ==
    mm.op = "generate"
    => mm.ret = MMGenerate(mm.model_loaded, mm.kw, "none").ret

\* C39: generate() on a manager whose model_loaded is false returns the
\* error value "Model not loaded" without raising, makes no frame and
\* calls no callback; frames are made only if load_model() has been called
\* since the last unload_model().
C39_UnloadedGenerateReturnsError ==
    mm.op = "generate"
    => /\ ~mm.model_loaded
          => /\ mm.ret = Returned("error", "Model not loaded", <<>>, 0, 0, 0)
             /\ mm.made = 0
             /\ mm.callbacks = <<>>
       /\ mm.made > 0 => mm.since_load

\* A manager that is not loaded was asked for one second of video and was
\* given a callback.
C39_Witness ==
    /\ mm.op = "generate" /\ ~mm.model_loaded
    /\ mm.kw.duration = <<1>> /\ mm.cb = "returns"
    /\ mm.ret.kind = "error"

\* C38: when load() has failed on entering a manager's `with` scope, the
\* manager is not loaded.
C38_FailedEntryLeavesUnloaded ==
    (lastMgr \in Managers /\ lastOp = "enter" /\ lastResult # "ok")
    => ~is_loaded(model, lastMgr)

\* C34: at most one generate_video call executes at a time on one
\* pipeline: no call is admitted while another has not yet returned.
C34_AtMostOneCallExecutes ==
    Cardinality({t \in Callers : Executing(th[t])}) <= 1

\* C35: a generate_video call during which cancel_generation() was called
\* saves nothing (no file, no output_path, no 'Video saved') and, unless an
\* exception leaves it, returns the empty string.
C35_CancelledCallSavesNothing ==
    \A t \in Callers :
        th[t].cancelled
        => /\ ~th[t].saved
           /\ (th[t].pc = "idle" /\ th[t].ret # "raised") => th[t].ret = ""

\* C36: right after generate_video() has returned or raised from its try
\* block is_generating is False and get_status() reports is_generating =
\* False and progress = 0; right after a call was rejected is_generating is
\* what the call found.
C36_FlagClearAfterCall ==
    /\ vp.ev.what \in {"returned", "raised"}
       => /\ ~vp.is_generating
          /\ ~get_status(vp).is_generating
          /\ get_status(vp).progress = 0
    /\ vp.ev.what = "rejected" => vp.is_generating = vp.ev.was

\* What C37 says of every state: the last started generation has put
\* nothing yet, or one 'success' or 'error', or that followed by one
\* 'done', which is then the last message on the queue; a generation whose
\* thread has ended has put both; and when the poller has just handled
\* 'done', is_generating is False and the generate button is enabled.
C37_Messages ==
    /\ gui.sent \in {<<>>, <<"success">>, <<"error">>,
                     <<"success", "done">>, <<"error", "done">>}
    /\ \A k \in 1..Len(gui.log_queue) :
          gui.log_queue[k] = "done" => k = Len(gui.log_queue)
    /\ (gui.is_generating /\ gui.worker = "none")
       => (Len(gui.sent) = 2 /\ gui.log_queue # <<>>)
    /\ gui.ev = "handled_done"
       => (~gui.is_generating /\ gui.generate_button = "normal")

\* C37: every started background generation puts exactly one 'success' or
\* 'error' and then exactly one 'done' as its last message; handling 'done'
\* clears is_generating and enables the generate button; and a started
\* generation always leads to a state where is_generating is False.
C37_GenerationAlwaysEnds ==
    /\ []C37_Messages
    /\ gui.is_generating ~> ~gui.is_generating

\* A generation that failed was started, put 'error' and 'done', and the
\* poller has handled 'done'.
C37_Witness ==
    /\ gui.ev = "handled_done"
    /\ gui.sent = <<"error", "done">>
    /\ ~gui.is_generating /\ gui.generate_button = "normal"

====
